---------------------------- MODULE Spec2Model ----------------------------
(***************************************************************************)
(* The SecondaryStructure widget (React 18 component) as a state machine.  *)
(* Hook state, refs, the mounted diagrams, pending timers and the async    *)
(* functions in flight are the variables; one action per handler, promise  *)
(* continuation or timer callback.  Every action ends with the render and  *)
(* effect pass React runs after a batch of state writes (Commit).          *)
(***************************************************************************)
EXTENDS Integers, Sequences, FiniteSets, TLC

VARIABLES
    familyAcc,                \* prop
    imageTypes,               \* prop
    selectedImageType,        \* useState
    svgContent,               \* useState
    imageStatus,              \* useState
    errorMessage,             \* useState
    availableTypes,           \* useState
    rscapeStats,              \* useState
    svgToggleState,           \* useState
    loupePosition,            \* useState
    isImageNotAvailable,      \* useState
    rscapeCykContent,         \* useState
    rscapeCykStatus,          \* useState
    rscapeCykStats,           \* useState
    isRscapeCykNotAvailable,  \* useState
    panZoomInstanceRef,       \* useRef
    panZoomCykInstanceRef,    \* useRef
    mainDom,                  \* diagram mounted under svgContainerRef
    cykDom,                   \* diagram mounted under svgContainerCykRef
    mainTimer,                \* pending 100 ms timer of the main processing effect
    cykTimer,                 \* pending 100 ms timer of the CYK processing effect
    liveMain,                 \* pan/zoom instances created on the main slot, not destroyed
    liveCyk,                  \* pan/zoom instances created on the comparator slot, not destroyed
    tasks,                    \* async functions suspended at an await
    probeLog,                 \* HEAD requests resolved so far, with their outcome
    initGets,                 \* GET requests issued by initialization, with their outcome
    switchGets,               \* GET requests issued by the latest user switch, with their outcome
    cykGets,                  \* number of GET requests issued by loadRscapeCyk
    switches                  \* user type switches made so far

vars == << familyAcc, imageTypes, selectedImageType, svgContent, imageStatus,
           errorMessage, availableTypes, rscapeStats, svgToggleState, loupePosition,
           isImageNotAvailable, rscapeCykContent, rscapeCykStatus, rscapeCykStats,
           isRscapeCykNotAvailable, panZoomInstanceRef, panZoomCykInstanceRef,
           mainDom, cykDom, mainTimer, cykTimer, liveMain, liveCyk, tasks,
           probeLog, initGets, switchGets, cykGets, switches >>

---------------------------------------------------------------------------
(* Bounds of the model *)

MaxTypes == 3
MaxSwitches == 2
MaxEls == 2
MaxPasses == 2
MaxReinits == 1
DimSpread == 1
MaxPointer == 3

---------------------------------------------------------------------------
(* Constants of the program *)

DROPDOWN_IMAGE_TYPES == << "rscape", "cons", "fcbp", "cov", "ent", "maxcm", "norm", "rchie" >>

RSCAPE_COLORS == [ significant |-> "#31a354", conserved97 |-> "#d90000",
                   conserved90 |-> "#000000", conserved75 |-> "#807b88",
                   conserved50 |-> "#ffffff" ]

NoImagesMessage == "No secondary structure images available for this family."

FailedMessage(type) == "Failed to load " \o type \o " image."

---------------------------------------------------------------------------
(* Sequences *)

Range(q) == { q[i] : i \in 1..Len(q) }

RECURSIVE Filter(_, _)
Filter(q, S) ==
    IF q = << >> THEN << >>
    ELSE IF Head(q) \in S THEN << Head(q) >> \o Filter(Tail(q), S)
    ELSE Filter(Tail(q), S)

RemoveAt(q, k) == [ i \in 1..(Len(q) - 1) |-> IF i < k THEN q[i] ELSE q[i + 1] ]

InjectiveSeqs(S, n) ==
    UNION { { q \in [1..m -> S] : \A i, j \in 1..m : i # j => q[i] # q[j] } : m \in 0..n }

---------------------------------------------------------------------------
(* Response bodies and diagrams.  A body is '' (empty), text without an    *)
(* '<svg' tag (raw), or SVG markup; an SVG body is carried as the list of  *)
(* elements its markup declares.                                           *)

El(tag, fill, sw, id, txt) ==
    [ tag |-> tag, fill |-> fill, sw |-> sw, id |-> id, txt |-> txt, tooltip |-> "", cursor |-> "",
      visibility |-> "" ]

\* an attribute of the svg root: absent, or declared with an integer value
NoAttr == [ present |-> FALSE, value |-> 0 ]
Attr(n) == [ present |-> TRUE, value |-> n ]

EmptyBody == [ kind |-> "empty", els |-> << >>, width |-> NoAttr, height |-> NoAttr ]
RawBody == [ kind |-> "raw", els |-> << >>, width |-> NoAttr, height |-> NoAttr ]
SvgBody(els) == [ kind |-> "svg", els |-> els, width |-> NoAttr, height |-> NoAttr ]

\* SVG markup whose root declares width and height
SizedSvgBody(els, width, height) ==
    [ kind |-> "svg", els |-> els, width |-> width, height |-> height ]

Includes_svg(content) == content.kind = "svg"
Truthy(content) == content.kind # "empty"

PairLine(fill) == El("path", fill, "1.44", "", "")

\* ten pairing lines, three of them with the significant fill
FixtureA ==
    << PairLine("#31a354"), PairLine("none"), PairLine("none"), PairLine("#31a354"),
       PairLine("none"), PairLine("#d90000"), PairLine("none"), PairLine("#31a354"),
       PairLine("none"), PairLine("none") >>

\* a title, two nucleotides, a circle and two pairing lines
FixtureB ==
    << El("text", "none", "", "text1000", "title"), El("tspan", "#d90000", "", "", "R"),
       El("tspan", "#000000", "", "", "5'"), El("path", "#807b88", "0.5", "", ""),
       PairLine("#31a354"), PairLine("none") >>

Corpus == { FixtureA, FixtureB }


NoDom ==
    [ mounted |-> FALSE, els |-> << >>, passes |-> 0, bound |-> FALSE,
      width |-> NoAttr, height |-> NoAttr ]

\* dangerouslySetInnerHTML={{ __html: content }}: the browser parses the markup afresh;
\* passes counts the runs of the annotation pass on the mounted diagram, bound
\* tells that a pan/zoom instance was created on it and not destroyed
MountDom(content) ==
    [ mounted |-> TRUE, els |-> content.els, passes |-> 0, bound |-> FALSE,
      width |-> content.width, height |-> content.height ]

NullStats == [ basepairs |-> -1, significantBasepairs |-> -1 ]

---------------------------------------------------------------------------
(* The remote image service: what one request can resolve to *)

Throw == [ status |-> "throw", body |-> EmptyBody, png |-> FALSE ]
NotOk == [ status |-> "notok", body |-> EmptyBody, png |-> FALSE ]
Ok(body, png) == [ status |-> "ok", body |-> body, png |-> png ]

Responses ==
    { Throw, NotOk, Ok(RawBody, TRUE), Ok(RawBody, FALSE),
      Ok(SvgBody(FixtureA), FALSE), Ok(SvgBody(FixtureB), TRUE) }

ProbeOutcomes == { "ok", "notok", "throw" }

---------------------------------------------------------------------------
(* The component's state as one record, so that handlers compose *)

Cur ==
    [ familyAcc |-> familyAcc, imageTypes |-> imageTypes,
      selectedImageType |-> selectedImageType, svgContent |-> svgContent,
      imageStatus |-> imageStatus, errorMessage |-> errorMessage,
      availableTypes |-> availableTypes, rscapeStats |-> rscapeStats,
      svgToggleState |-> svgToggleState, loupePosition |-> loupePosition,
      isImageNotAvailable |-> isImageNotAvailable,
      rscapeCykContent |-> rscapeCykContent, rscapeCykStatus |-> rscapeCykStatus,
      rscapeCykStats |-> rscapeCykStats,
      isRscapeCykNotAvailable |-> isRscapeCykNotAvailable,
      panZoomInstanceRef |-> panZoomInstanceRef,
      panZoomCykInstanceRef |-> panZoomCykInstanceRef,
      mainDom |-> mainDom, cykDom |-> cykDom, mainTimer |-> mainTimer,
      cykTimer |-> cykTimer, liveMain |-> liveMain, liveCyk |-> liveCyk,
      tasks |-> tasks, probeLog |-> probeLog, initGets |-> initGets,
      switchGets |-> switchGets, cykGets |-> cykGets, switches |-> switches ]

Becomes(s) ==
    /\ familyAcc' = s.familyAcc
    /\ imageTypes' = s.imageTypes
    /\ selectedImageType' = s.selectedImageType
    /\ svgContent' = s.svgContent
    /\ imageStatus' = s.imageStatus
    /\ errorMessage' = s.errorMessage
    /\ availableTypes' = s.availableTypes
    /\ rscapeStats' = s.rscapeStats
    /\ svgToggleState' = s.svgToggleState
    /\ loupePosition' = s.loupePosition
    /\ isImageNotAvailable' = s.isImageNotAvailable
    /\ rscapeCykContent' = s.rscapeCykContent
    /\ rscapeCykStatus' = s.rscapeCykStatus
    /\ rscapeCykStats' = s.rscapeCykStats
    /\ isRscapeCykNotAvailable' = s.isRscapeCykNotAvailable
    /\ panZoomInstanceRef' = s.panZoomInstanceRef
    /\ panZoomCykInstanceRef' = s.panZoomCykInstanceRef
    /\ mainDom' = s.mainDom
    /\ cykDom' = s.cykDom
    /\ mainTimer' = s.mainTimer
    /\ cykTimer' = s.cykTimer
    /\ liveMain' = s.liveMain
    /\ liveCyk' = s.liveCyk
    /\ tasks' = s.tasks
    /\ probeLog' = s.probeLog
    /\ initGets' = s.initGets
    /\ switchGets' = s.switchGets
    /\ cykGets' = s.cykGets
    /\ switches' = s.switches

\* useState initial values and useRef(null), for the given props
InitialState(fam, types) ==
    [ familyAcc |-> fam, imageTypes |-> types,
      selectedImageType |-> IF Len(types) > 0 /\ types[1] # "" THEN types[1] ELSE "rscape",
      svgContent |-> EmptyBody, imageStatus |-> "loading", errorMessage |-> "",
      availableTypes |-> << >>, rscapeStats |-> NullStats, svgToggleState |-> 1,
      loupePosition |-> [ x |-> 0, y |-> 0, visible |-> FALSE ],
      isImageNotAvailable |-> FALSE, rscapeCykContent |-> EmptyBody,
      rscapeCykStatus |-> "loading", rscapeCykStats |-> NullStats,
      isRscapeCykNotAvailable |-> FALSE, panZoomInstanceRef |-> "null",
      panZoomCykInstanceRef |-> "null", mainDom |-> NoDom, cykDom |-> NoDom,
      mainTimer |-> FALSE, cykTimer |-> FALSE, liveMain |-> 0, liveCyk |-> 0,
      tasks |-> << >>, probeLog |-> << >>, initGets |-> << >>, switchGets |-> << >>,
      cykGets |-> 0, switches |-> 0 ]

---------------------------------------------------------------------------
(* loadImage: the result object for a resolved GET, NoResult for null *)

NoResult == [ ok |-> FALSE, content |-> EmptyBody, isAvailable |-> FALSE, isSvg |-> FALSE ]

\* mutant: the raster-native type is not exempted
loadImage_noRchie(type, resp) ==
    IF resp.status # "ok" THEN NoResult
    ELSE LET isSvg == Includes_svg(resp.body)
             isPng == resp.png
         IN IF ~isSvg /\ ~isPng THEN NoResult
            ELSE [ ok |-> TRUE, content |-> resp.body, isAvailable |-> isSvg, isSvg |-> isSvg ]

\* mutant: the body is not checked for being SVG or PNG
loadImage_anyBody(type, resp) ==
    IF resp.status # "ok" THEN NoResult
    ELSE LET isSvg == Includes_svg(resp.body)
         IN [ ok |-> TRUE, content |-> resp.body,
              isAvailable |-> (isSvg \/ type = "rchie"), isSvg |-> isSvg ]

\* mutant: the 'not available' PNG counts as a failed load
loadImage_rejectsPlaceholder(type, resp) ==
    IF resp.status # "ok" THEN NoResult
    ELSE LET isSvg == Includes_svg(resp.body)
             isPng == resp.png
         IN IF ~isSvg /\ ~isPng THEN NoResult
            ELSE IF ~(isSvg \/ type = "rchie") THEN NoResult
            ELSE [ ok |-> TRUE, content |-> resp.body,
                   isAvailable |-> (isSvg \/ type = "rchie"), isSvg |-> isSvg ]


loadImage(type, resp) ==
    IF resp.status # "ok" THEN NoResult
    ELSE LET isSvg == Includes_svg(resp.body)
             isPng == resp.png
         IN IF ~isSvg /\ ~isPng THEN NoResult
            ELSE [ ok |-> TRUE, content |-> resp.body,
                   isAvailable |-> (isSvg \/ type = "rchie"), isSvg |-> isSvg ]

\* mutant: any answer counts as available
checkImageAvailability_anyAnswer(outcome) == outcome # "throw"

\* mutant: a request that throws counts as available
checkImageAvailability_throwOk(outcome) == outcome # "notok"

\* checkImageAvailability: response.ok, false when the request throws
checkImageAvailability(outcome) == outcome = "ok"

\* what the service sent, as the logs record it: a transport failure, a non-OK
\* status and a body that is neither SVG nor PNG are failures
Outcome(resp) ==
    IF resp.status = "ok" /\ (resp.body.kind = "svg" \/ resp.png) THEN "valid" ELSE "failed"

\* a fetch(url) call: the request joins the caller's log, the caller suspends on it
IssueGet(s, by, type) ==
    LET entry == [ type |-> type, outcome |-> "pending" ]
    IN IF by = "init" THEN [ s EXCEPT !.initGets = Append(@, entry) ]
       ELSE IF by = "switch" THEN [ s EXCEPT !.switchGets = Append(@, entry) ]
       ELSE [ s EXCEPT !.cykGets = @ + 1 ]

\* the request a task is suspended on resolves
Resolved(s, t, resp) ==
    IF t.kind = "init" THEN [ s EXCEPT !.initGets[t.req].outcome = Outcome(resp) ]
    ELSE IF t.kind = "switch" THEN [ s EXCEPT !.switchGets[t.req].outcome = Outcome(resp) ]
    ELSE s

Task(kind, phase, fam, check, i, available, type, req) ==
    [ kind |-> kind, phase |-> phase, fam |-> fam, check |-> check, i |-> i,
      available |-> available, type |-> type, req |-> req ]

---------------------------------------------------------------------------
(* The annotation pass *)

DisplayNucleotide(n) == IF n = "R" THEN "G or A" ELSE IF n = "Y" THEN "C or U" ELSE n

TspanTitle(e) ==
    IF e.fill = RSCAPE_COLORS.conserved97 THEN DisplayNucleotide(e.txt) \o " present >97%"
    ELSE IF e.fill = RSCAPE_COLORS.conserved90 /\ e.txt # "5'"
        THEN DisplayNucleotide(e.txt) \o " present 90-97%"
    ELSE IF e.fill = RSCAPE_COLORS.conserved75 THEN DisplayNucleotide(e.txt) \o " present 75-90%"
    ELSE IF e.fill = RSCAPE_COLORS.conserved50 THEN DisplayNucleotide(e.txt) \o " present 50-75%"
    ELSE ""

PathTitle(e) ==
    IF e.fill = RSCAPE_COLORS.significant THEN "Significant basepair"
    ELSE IF e.fill = RSCAPE_COLORS.conserved97 THEN "Nucleotide present 97%"
    ELSE IF e.fill = RSCAPE_COLORS.conserved90 THEN "Nucleotide present 90%"
    ELSE IF e.fill = RSCAPE_COLORS.conserved75 THEN "Nucleotide present 75%"
    ELSE IF e.fill = RSCAPE_COLORS.conserved50 THEN "Nucleotide present 50%"
    ELSE ""

\* the forEach bodies: a non-empty title sets the cursor and dataset.tooltip
Annotate(e) ==
    LET title == IF e.tag = "tspan" THEN TspanTitle(e)
                 ELSE IF e.tag = "path" THEN PathTitle(e) ELSE ""
    IN IF title # "" THEN [ e EXCEPT !.cursor = "pointer", !.tooltip = title ] ELSE e

\* the two counters of the paths.forEach loop
RECURSIVE CountBasepairs(_)
CountBasepairs(els) ==
    IF els = << >> THEN 0
    ELSE (IF Head(els).tag = "path" /\ Head(els).sw = "1.44" THEN 1 ELSE 0)
         + CountBasepairs(Tail(els))

RECURSIVE CountSignificant(_)
CountSignificant(els) ==
    IF els = << >> THEN 0
    ELSE (IF Head(els).tag = "path" /\ Head(els).fill = RSCAPE_COLORS.significant THEN 1 ELSE 0)
         + CountSignificant(Tail(els))

\* svgElement.querySelector('#text1000')?.remove(): the first element with that id
RECURSIVE RemoveTitle(_)
RemoveTitle(els) ==
    IF els = << >> THEN << >>
    ELSE IF Head(els).id = "text1000" THEN Tail(els)
    ELSE << Head(els) >> \o RemoveTitle(Tail(els))

\* processRscapeSvg(containerRef, setStats) on a slot's mounted diagram:
\* the diagram after the pass, and the statistics it publishes
AnnotatedDom(dom) ==
    [ dom EXCEPT !.els = RemoveTitle([ i \in 1..Len(dom.els) |-> Annotate(dom.els[i]) ]),
                 !.passes = @ + 1 ]

PublishedStats(dom) ==
    [ basepairs |-> CountBasepairs(dom.els), significantBasepairs |-> CountSignificant(dom.els) ]

processRscapeSvg(s, slot) ==
    IF slot = "main"
    THEN IF ~s.mainDom.mounted THEN s
         ELSE [ s EXCEPT !.rscapeStats = PublishedStats(s.mainDom),
                         !.mainDom = AnnotatedDom(s.mainDom) ]
    ELSE IF ~s.cykDom.mounted THEN s
         ELSE [ s EXCEPT !.rscapeCykStats = PublishedStats(s.cykDom),
                         !.cykDom = AnnotatedDom(s.cykDom) ]

---------------------------------------------------------------------------
(* The layer toggle *)

\* svgElement.querySelector('#' + id): the position of the first element with that id, 0 for null
QuerySelector(els, id) ==
    IF \E i \in 1..Len(els) : els[i].id = id
    THEN CHOOSE i \in 1..Len(els) : els[i].id = id /\ \A j \in 1..(i - 1) : els[j].id # id
    ELSE 0

\* if (el) el.style.visibility = v
SetVisibility(els, i, v) == IF i = 0 THEN els ELSE [ els EXCEPT ![i].visibility = v ]

\* mutant: a diagram without any of the layers is not left alone
handleSvgClick_noGuard(s) ==
    IF s.selectedImageType = "rscape" \/ s.selectedImageType = "rchie" THEN s
    ELSE IF ~s.mainDom.mounted THEN s
    ELSE LET els == s.mainDom.els
             seq == QuerySelector(els, "seq")
             lines == QuerySelector(els, "outline")
             pairs == QuerySelector(els, "pairs")
             newState == IF s.svgToggleState = 3 THEN 1 ELSE s.svgToggleState + 1
             V(a, b, c) == SetVisibility(SetVisibility(SetVisibility(els, seq, a), lines, b), pairs, c)
         IN [ s EXCEPT !.svgToggleState = newState,
                       !.mainDom.els =
                           IF newState = 1 THEN V("visible", "visible", "visible")
                           ELSE IF newState = 2 THEN V("hidden", "visible", "visible")
                           ELSE V("visible", "hidden", "hidden") ]

\* mutant: the third phase leaves the pairing lines shown
handleSvgClick_pairsShown(s) ==
    IF s.selectedImageType = "rscape" \/ s.selectedImageType = "rchie" THEN s
    ELSE IF ~s.mainDom.mounted THEN s
    ELSE LET els == s.mainDom.els
             seq == QuerySelector(els, "seq")
             lines == QuerySelector(els, "outline")
             pairs == QuerySelector(els, "pairs")
             newState == IF s.svgToggleState = 3 THEN 1 ELSE s.svgToggleState + 1
             V(a, b, c) == SetVisibility(SetVisibility(SetVisibility(els, seq, a), lines, b), pairs, c)
         IN IF seq = 0 /\ lines = 0 /\ pairs = 0 THEN s
            ELSE [ s EXCEPT !.svgToggleState = newState,
                            !.mainDom.els =
                                IF newState = 1 THEN V("visible", "visible", "visible")
                                ELSE IF newState = 2 THEN V("hidden", "visible", "visible")
                                ELSE V("visible", "hidden", "visible") ]

handleSvgClick(s) ==
    IF s.selectedImageType = "rscape" \/ s.selectedImageType = "rchie" THEN s
    ELSE IF ~s.mainDom.mounted THEN s
    ELSE LET els == s.mainDom.els
             seq == QuerySelector(els, "seq")
             lines == QuerySelector(els, "outline")
             pairs == QuerySelector(els, "pairs")
             newState == IF s.svgToggleState = 3 THEN 1 ELSE s.svgToggleState + 1
             V(a, b, c) == SetVisibility(SetVisibility(SetVisibility(els, seq, a), lines, b), pairs, c)
         IN IF seq = 0 /\ lines = 0 /\ pairs = 0 THEN s
            ELSE [ s EXCEPT !.svgToggleState = newState,
                            !.mainDom.els =
                                IF newState = 1 THEN V("visible", "visible", "visible")
                                ELSE IF newState = 2 THEN V("hidden", "visible", "visible")
                                ELSE V("visible", "hidden", "hidden") ]

---------------------------------------------------------------------------
(* The R-chie loupe *)

\* the condition under which the <img ref={rchieImageRef}> is rendered
RchieImageShown(s) ==
    s.imageStatus = "loaded" /\ ~s.isImageNotAvailable /\ s.selectedImageType = "rchie"

\* rect is rchieImageRef.current.getBoundingClientRect()
handleRchieMouseMove(s, clientX, clientY, rect) ==
    IF s.selectedImageType # "rchie" \/ ~RchieImageShown(s) THEN s
    ELSE [ s EXCEPT !.loupePosition =
               [ x |-> clientX, y |-> clientY, bgX |-> clientX - rect.left,
                 bgY |-> clientY - rect.top, visible |-> TRUE ] ]

\* setLoupePosition(prev => ({ ...prev, visible: false }))
handleRchieMouseLeave(s) == [ s EXCEPT !.loupePosition.visible = FALSE ]

\* a number interpolated into a template literal: its characters, a '-' first when negative
NumberToString(n) == IF n < 0 THEN << "-", 0 - n >> ELSE << n >>

\* `-${v}px`
MinusPx(v) == << "-" >> \o NumberToString(v) \o << "px" >>

\* the CSS length such text denotes: '-' digits 'px'; anything else is not a length
CssLength(text) ==
    IF Len(text) = 3 /\ text[1] = "-" /\ text[3] = "px"
    THEN [ valid |-> TRUE, value |-> 0 - text[2] ]
    ELSE [ valid |-> FALSE, value |-> 0 ]

\* {loupePosition.visible && isRchieType && rchieImageRef.current && <div className="ss-loupe" .../>}
LoupeShown(s) ==
    s.loupePosition.visible /\ s.selectedImageType = "rchie" /\ RchieImageShown(s)

\* the style of the rendered loupe
LoupeStyle(s) ==
    [ left |-> s.loupePosition.x - 100, top |-> s.loupePosition.y - 100,
      backgroundPosition |-> << MinusPx(s.loupePosition.bgX * 2 - 100),
                                MinusPx(s.loupePosition.bgY * 2 - 100) >> ]

---------------------------------------------------------------------------
(* The viewport controller *)

\* panZoomRef.current.destroy(); panZoomRef.current = null, when the ref holds one
DestroyPanZoom(s, slot) ==
    IF slot = "main"
    THEN IF s.panZoomInstanceRef # "null"
         THEN [ s EXCEPT !.liveMain = @ - 1, !.panZoomInstanceRef = "null",
                         !.mainDom.bound = FALSE ] ELSE s
    ELSE IF s.panZoomCykInstanceRef # "null"
         THEN [ s EXCEPT !.liveCyk = @ - 1, !.panZoomCykInstanceRef = "null",
                         !.cykDom.bound = FALSE ] ELSE s

\* svgPanZoom(svgElement, ...) returning an instance (created) or throwing
CreatePanZoom(s, slot, created) ==
    IF ~created THEN s
    ELSE IF slot = "main"
    THEN [ s EXCEPT !.liveMain = @ + 1, !.panZoomInstanceRef = "instance",
                    !.mainDom.bound = TRUE ]
    ELSE [ s EXCEPT !.liveCyk = @ + 1, !.panZoomCykInstanceRef = "instance",
                    !.cykDom.bound = TRUE ]

\* parseInt(svgElement.getAttribute(name)): NaN for a missing attribute
ParseInt(attr) ==
    IF attr.present THEN [ nan |-> FALSE, value |-> attr.value ] ELSE [ nan |-> TRUE, value |-> 0 ]

\* const width = parseInt(...) || 400; if (width < 400) svgElement.setAttribute(name, 400)
MinimumDimension(attr) ==
    LET parsed == ParseInt(attr)
        width == IF parsed.nan \/ parsed.value = 0 THEN 400 ELSE parsed.value
    IN IF width < 400 THEN Attr(400) ELSE attr

\* "Ensure minimum dimensions" on the slot's mounted diagram
EnsureMinimumDimensions(s, slot) ==
    IF slot = "main"
    THEN [ s EXCEPT !.mainDom.width = MinimumDimension(@), !.mainDom.height = MinimumDimension(@) ]
    ELSE [ s EXCEPT !.cykDom.width = MinimumDimension(@), !.cykDom.height = MinimumDimension(@) ]

\* mutant: the prior instance is not destroyed
initializePanZoom_noDestroy(s, slot, created) ==
    LET dom == IF slot = "main" THEN s.mainDom ELSE s.cykDom
    IN IF ~dom.mounted THEN s ELSE CreatePanZoom(EnsureMinimumDimensions(s, slot), slot, created)

\* mutant: a failure to bind is reported as a failure of the load
initializePanZoom_reports(s, slot, created) ==
    LET d == DestroyPanZoom(s, slot)
        dom == IF slot = "main" THEN d.mainDom ELSE d.cykDom
    IN IF ~dom.mounted \/ ~created
       THEN [ EnsureMinimumDimensions(d, slot) EXCEPT
                  !.imageStatus = "error", !.errorMessage = "Failed to initialize pan/zoom" ]
       ELSE CreatePanZoom(EnsureMinimumDimensions(d, slot), slot, created)


initializePanZoom(s, slot, created) ==
    LET d == DestroyPanZoom(s, slot)
        dom == IF slot = "main" THEN d.mainDom ELSE d.cykDom
    IN IF ~dom.mounted THEN d ELSE CreatePanZoom(EnsureMinimumDimensions(d, slot), slot, created)

---------------------------------------------------------------------------
(* Async functions *)

SetTask(s, k, t) == [ s EXCEPT !.tasks[k] = t ]
EndTask(s, k) == [ s EXCEPT !.tasks = RemoveAt(@, k) ]

\* loadRscapeCyk up to its await
loadRscapeCyk(s) ==
    LET w == [ s EXCEPT !.rscapeCykStatus = "loading",
                        !.isRscapeCykNotAvailable = FALSE,
                        !.rscapeCykStats = NullStats ]
        g == IssueGet(w, "cyk", "rscape-cacofold")
    IN [ g EXCEPT !.tasks = Append(@, Task("cyk", "fetch", s.familyAcc, << >>, 0, << >>,
                                          "rscape-cacofold", 0)) ]

\* mutant: a failed companion load is reported as the failure of the primary diagram
loadRscapeCykResume_downgrades(s, k, resp) ==
    LET t == s.tasks[k]
        result == loadImage("rscape-cacofold", resp)
        d == EndTask(Resolved(s, t, resp), k)
    IN IF result.ok
       THEN [ d EXCEPT !.rscapeCykContent = result.content,
                       !.isRscapeCykNotAvailable = ~result.isAvailable,
                       !.rscapeCykStatus = "loaded" ]
       ELSE [ d EXCEPT !.rscapeCykStatus = "error", !.isRscapeCykNotAvailable = TRUE,
                       !.imageStatus = "error" ]

\* loadRscapeCyk after its await
loadRscapeCykResume(s, k, resp) ==
    LET t == s.tasks[k]
        result == loadImage("rscape-cacofold", resp)
        d == EndTask(Resolved(s, t, resp), k)
    IN IF result.ok
       THEN [ d EXCEPT !.rscapeCykContent = result.content,
                       !.isRscapeCykNotAvailable = ~result.isAvailable,
                       !.rscapeCykStatus = "loaded" ]
       ELSE [ d EXCEPT !.rscapeCykStatus = "error", !.isRscapeCykNotAvailable = TRUE ]

\* tryLoadImage(types) up to the first await; k is the caller's task
tryLoadImage(s, k, types) ==
    LET w == [ s EXCEPT !.imageStatus = "loading", !.isImageNotAvailable = FALSE ]
    IN IF types = << >>
       THEN [ EndTask(w, k) EXCEPT !.imageStatus = "error", !.errorMessage = NoImagesMessage ]
       ELSE LET g == IssueGet(w, "init", types[1])
            IN SetTask(g, k, [ s.tasks[k] EXCEPT !.phase = "fetch", !.available = types,
                                                 !.i = 1, !.type = types[1],
                                                 !.req = Len(g.initGets) ])

\* mutant: a sequence started for another entity is abandoned when it resumes
tryLoadImageResume_cancelled(s, k, resp) ==
    LET t == s.tasks[k]
        result == loadImage(t.type, resp)
        d == Resolved(s, t, resp)
    IN IF t.fam # s.familyAcc THEN EndTask(d, k)
       ELSE IF result.ok
       THEN [ EndTask(d, k) EXCEPT !.svgContent = result.content,
                                   !.selectedImageType = t.type,
                                   !.isImageNotAvailable = ~result.isAvailable,
                                   !.imageStatus = "loaded" ]
       ELSE IF t.i < Len(t.available)
       THEN LET g == IssueGet(d, "init", t.available[t.i + 1])
            IN SetTask(g, k, [ t EXCEPT !.i = t.i + 1, !.type = t.available[t.i + 1],
                                        !.req = Len(g.initGets) ])
       ELSE [ EndTask(d, k) EXCEPT !.imageStatus = "error", !.errorMessage = NoImagesMessage ]


\* mutant: exhaustion of the candidates is not reported
tryLoadImageResume_silent(s, k, resp) ==
    LET t == s.tasks[k]
        result == loadImage(t.type, resp)
        d == Resolved(s, t, resp)
    IN IF result.ok
       THEN [ EndTask(d, k) EXCEPT !.svgContent = result.content,
                                   !.selectedImageType = t.type,
                                   !.isImageNotAvailable = ~result.isAvailable,
                                   !.imageStatus = "loaded" ]
       ELSE IF t.i < Len(t.available)
       THEN LET g == IssueGet(d, "init", t.available[t.i + 1])
            IN SetTask(g, k, [ t EXCEPT !.i = t.i + 1, !.type = t.available[t.i + 1],
                                        !.req = Len(g.initGets) ])
       ELSE EndTask(d, k)

\* mutant: the loop does not return on the first valid response
tryLoadImageResume_peeks(s, k, resp) ==
    LET t == s.tasks[k]
        result == loadImage(t.type, resp)
        d == Resolved(s, t, resp)
        w == IF result.ok
             THEN [ d EXCEPT !.svgContent = result.content,
                             !.selectedImageType = t.type,
                             !.isImageNotAvailable = ~result.isAvailable,
                             !.imageStatus = "loaded" ]
             ELSE d
    IN IF t.i < Len(t.available)
       THEN LET g == IssueGet(w, "init", t.available[t.i + 1])
            IN SetTask(g, k, [ t EXCEPT !.i = t.i + 1, !.type = t.available[t.i + 1],
                                        !.req = Len(g.initGets) ])
       ELSE IF result.ok THEN EndTask(w, k)
       ELSE [ EndTask(d, k) EXCEPT !.imageStatus = "error", !.errorMessage = NoImagesMessage ]

\* mutant: the candidate that loaded is not selected
tryLoadImageResume_keepsSelection(s, k, resp) ==
    LET t == s.tasks[k]
        result == loadImage(t.type, resp)
        d == Resolved(s, t, resp)
    IN IF result.ok
       THEN [ EndTask(d, k) EXCEPT !.svgContent = result.content,
                                   !.isImageNotAvailable = ~result.isAvailable,
                                   !.imageStatus = "loaded" ]
       ELSE IF t.i < Len(t.available)
       THEN LET g == IssueGet(d, "init", t.available[t.i + 1])
            IN SetTask(g, k, [ t EXCEPT !.i = t.i + 1, !.type = t.available[t.i + 1],
                                        !.req = Len(g.initGets) ])
       ELSE [ EndTask(d, k) EXCEPT !.imageStatus = "error", !.errorMessage = NoImagesMessage ]

\* tryLoadImage after an await of loadImage(type)
tryLoadImageResume(s, k, resp) ==
    LET t == s.tasks[k]
        result == loadImage(t.type, resp)
        d == Resolved(s, t, resp)
    IN IF result.ok
       THEN [ EndTask(d, k) EXCEPT !.svgContent = result.content,
                                   !.selectedImageType = t.type,
                                   !.isImageNotAvailable = ~result.isAvailable,
                                   !.imageStatus = "loaded" ]
       ELSE IF t.i < Len(t.available)
       THEN LET g == IssueGet(d, "init", t.available[t.i + 1])
            IN SetTask(g, k, [ t EXCEPT !.i = t.i + 1, !.type = t.available[t.i + 1],
                                        !.req = Len(g.initGets) ])
       ELSE [ EndTask(d, k) EXCEPT !.imageStatus = "error", !.errorMessage = NoImagesMessage ]

\* mutant: the candidates are not filtered to the dropdown types
initializeImages_unfiltered(s) ==
    LET typesToCheck == s.imageTypes
    IN IF typesToCheck = << >>
       THEN [ s EXCEPT !.availableTypes = << >>, !.imageStatus = "error",
                       !.errorMessage = NoImagesMessage ]
       ELSE [ s EXCEPT !.tasks = Append(@, Task("init", "probe", s.familyAcc, typesToCheck, 1,
                                               << >>, typesToCheck[1], 0)) ]


\* initializeImages up to its first await (the body of the initial load effect)
initializeImages(s) ==
    LET typesToCheck == Filter(s.imageTypes, Range(DROPDOWN_IMAGE_TYPES))
    IN IF typesToCheck = << >>
       THEN [ s EXCEPT !.availableTypes = << >>, !.imageStatus = "error",
                       !.errorMessage = NoImagesMessage ]
       ELSE [ s EXCEPT !.tasks = Append(@, Task("init", "probe", s.familyAcc, typesToCheck, 1,
                                               << >>, typesToCheck[1], 0)) ]

\* mutant: initialization runs whatever the props
InitialLoadEffect_unguarded(s) == initializeImages(s)


InitialLoadEffect(s) ==
    IF s.familyAcc # "" /\ Len(s.imageTypes) > 0 THEN initializeImages(s) ELSE s

\* mutant: with nothing available, every candidate is tried anyway
initializeImagesResume_triesAll(s, k, outcome) ==
    LET t == s.tasks[k]
        available == IF checkImageAvailability(outcome) THEN Append(t.available, t.type)
                     ELSE t.available
        d == [ s EXCEPT !.probeLog = Append(@, [ type |-> t.type, outcome |-> outcome ]) ]
    IN IF t.i < Len(t.check)
       THEN SetTask(d, k, [ t EXCEPT !.i = t.i + 1, !.type = t.check[t.i + 1],
                                     !.available = available ])
       ELSE LET a == [ d EXCEPT !.availableTypes = available ]
            IN IF Len(available) > 0 THEN tryLoadImage(a, k, available)
               ELSE tryLoadImage(a, k, t.check)

\* mutant: loading starts with the first candidate found available
initializeImagesResume_eager(s, k, outcome) ==
    LET t == s.tasks[k]
        available == IF checkImageAvailability(outcome) THEN Append(t.available, t.type)
                     ELSE t.available
        d == [ s EXCEPT !.probeLog = Append(@, [ type |-> t.type, outcome |-> outcome ]) ]
    IN IF t.i < Len(t.check) /\ Len(available) = 0
       THEN SetTask(d, k, [ t EXCEPT !.i = t.i + 1, !.type = t.check[t.i + 1],
                                     !.available = available ])
       ELSE LET a == [ d EXCEPT !.availableTypes = available ]
            IN IF Len(available) > 0 THEN tryLoadImage(a, k, available)
               ELSE [ EndTask(a, k) EXCEPT !.imageStatus = "error",
                                           !.errorMessage = NoImagesMessage ]

\* initializeImages after an await of checkImageAvailability(type)
initializeImagesResume(s, k, outcome) ==
    LET t == s.tasks[k]
        available == IF checkImageAvailability(outcome) THEN Append(t.available, t.type)
                     ELSE t.available
        d == [ s EXCEPT !.probeLog = Append(@, [ type |-> t.type, outcome |-> outcome ]) ]
    IN IF t.i < Len(t.check)
       THEN SetTask(d, k, [ t EXCEPT !.i = t.i + 1, !.type = t.check[t.i + 1],
                                     !.available = available ])
       ELSE LET a == [ d EXCEPT !.availableTypes = available ]
            IN IF Len(available) > 0 THEN tryLoadImage(a, k, available)
               ELSE [ EndTask(a, k) EXCEPT !.imageStatus = "error",
                                           !.errorMessage = NoImagesMessage ]

\* mutant: the pan/zoom instances are not destroyed by a switch
handleImageTypeChange_keepsViewport(s, type) ==
    IF type = s.selectedImageType THEN s
    ELSE LET c == [ s EXCEPT !.switchGets = << >> ]
             w == [ c EXCEPT !.imageStatus = "loading", !.selectedImageType = type,
                             !.rscapeStats = NullStats, !.rscapeCykStats = NullStats,
                             !.isImageNotAvailable = FALSE,
                             !.rscapeCykContent = EmptyBody,
                             !.rscapeCykStatus = "loading",
                             !.switches = @ + 1 ]
             g == IssueGet(w, "switch", type)
         IN [ g EXCEPT !.tasks = Append(@, Task("switch", "fetch", s.familyAcc, << >>, 0,
                                               << >>, type, Len(g.switchGets))) ]

\* handleImageTypeChange(type) up to its await
handleImageTypeChange(s, type) ==
    IF type = s.selectedImageType THEN s
    ELSE LET c == DestroyPanZoom(DestroyPanZoom([ s EXCEPT !.switchGets = << >> ], "main"), "cyk")
             w == [ c EXCEPT !.imageStatus = "loading", !.selectedImageType = type,
                             !.rscapeStats = NullStats, !.rscapeCykStats = NullStats,
                             !.isImageNotAvailable = FALSE,
                             !.rscapeCykContent = EmptyBody,
                             !.rscapeCykStatus = "loading",
                             !.switches = @ + 1 ]
             g == IssueGet(w, "switch", type)
         IN [ g EXCEPT !.tasks = Append(@, Task("switch", "fetch", s.familyAcc, << >>, 0,
                                               << >>, type, Len(g.switchGets))) ]

\* mutant: a failed load is not reported
handleImageTypeChangeResume_silent(s, k, resp) ==
    LET t == s.tasks[k]
        result == loadImage(t.type, resp)
        d == EndTask(Resolved(s, t, resp), k)
    IN IF result.ok
       THEN [ d EXCEPT !.svgContent = result.content,
                       !.isImageNotAvailable = ~result.isAvailable,
                       !.imageStatus = "loaded" ]
       ELSE d

\* mutant: a failed load is reported and tried again
handleImageTypeChangeResume_retries(s, k, resp) ==
    LET t == s.tasks[k]
        result == loadImage(t.type, resp)
        d == Resolved(s, t, resp)
    IN IF result.ok
       THEN [ EndTask(d, k) EXCEPT !.svgContent = result.content,
                                   !.isImageNotAvailable = ~result.isAvailable,
                                   !.imageStatus = "loaded" ]
       ELSE LET g == IssueGet(d, "switch", t.type)
            IN [ SetTask(g, k, [ t EXCEPT !.req = Len(g.switchGets) ])
                    EXCEPT !.imageStatus = "error", !.errorMessage = FailedMessage(t.type) ]

\* handleImageTypeChange after its await
handleImageTypeChangeResume(s, k, resp) ==
    LET t == s.tasks[k]
        result == loadImage(t.type, resp)
        d == EndTask(Resolved(s, t, resp), k)
    IN IF result.ok
       THEN [ d EXCEPT !.svgContent = result.content,
                       !.isImageNotAvailable = ~result.isAvailable,
                       !.imageStatus = "loaded" ]
       ELSE [ d EXCEPT !.imageStatus = "error", !.errorMessage = FailedMessage(t.type) ]

---------------------------------------------------------------------------
(* Rendering and effects.  p is the state of the previous render, s the    *)
(* state being rendered; effects whose dependencies differ between the two *)
(* are cleaned up and run again.                                           *)

isRscapeType(s) == s.selectedImageType = "rscape"

\* mutant: the diagram is rendered whatever the load status
MainShown_anyStatus(s) ==
    ~s.isImageNotAvailable /\ Includes_svg(s.svgContent)

\* the JSX conditions under which a container with ref={svgContainerRef} is rendered
MainShown(s) ==
    s.imageStatus = "loaded" /\ ~s.isImageNotAvailable /\ Includes_svg(s.svgContent)

\* the JSX condition under which the container with ref={svgContainerCykRef} is rendered
CykShown(s) ==
    /\ MainShown(s) /\ isRscapeType(s)
    /\ s.rscapeCykStatus = "loaded" /\ ~s.isRscapeCykNotAvailable
    /\ Includes_svg(s.rscapeCykContent)

RenderMainDom(p, s) ==
    IF ~MainShown(s) THEN NoDom
    ELSE IF MainShown(p) /\ isRscapeType(p) = isRscapeType(s) /\ p.svgContent = s.svgContent
    THEN s.mainDom
    ELSE MountDom(s.svgContent)

RenderCykDom(p, s) ==
    IF ~CykShown(s) THEN NoDom
    ELSE IF CykShown(p) /\ p.rscapeCykContent = s.rscapeCykContent THEN s.cykDom
    ELSE MountDom(s.rscapeCykContent)

CykLoadEffect(p, s, r) ==
    IF /\ \/ p.selectedImageType # s.selectedImageType
          \/ p.imageStatus # s.imageStatus
          \/ p.familyAcc # s.familyAcc
       /\ s.selectedImageType = "rscape" /\ s.imageStatus = "loaded"
    THEN loadRscapeCyk(r) ELSE r

\* mutant: the content is not checked for being vector markup
MainProcessEffect_anyContent(p, s) ==
    IF \/ p.imageStatus # s.imageStatus
       \/ p.svgContent # s.svgContent
       \/ p.selectedImageType # s.selectedImageType
    THEN /\ s.imageStatus = "loaded" /\ Truthy(s.svgContent)
         /\ s.selectedImageType = "rscape"
    ELSE s.mainTimer

\* "Process main R-scape SVG after content loads": the pending timer after cleanup and rerun
MainProcessEffect(p, s) ==
    IF \/ p.imageStatus # s.imageStatus
       \/ p.svgContent # s.svgContent
       \/ p.selectedImageType # s.selectedImageType
    THEN /\ s.imageStatus = "loaded" /\ Truthy(s.svgContent) /\ Includes_svg(s.svgContent)
         /\ s.selectedImageType = "rscape"
    ELSE s.mainTimer

\* "Process R-scape CYK SVG after content loads"
CykProcessEffect(p, s) ==
    IF p.rscapeCykStatus # s.rscapeCykStatus \/ p.rscapeCykContent # s.rscapeCykContent
    THEN /\ s.rscapeCykStatus = "loaded" /\ Truthy(s.rscapeCykContent)
         /\ Includes_svg(s.rscapeCykContent)
    ELSE s.cykTimer

\* mutant: the phase is kept across a change of the selected type
ToggleResetEffect_keeps(p, s) == s.svgToggleState

\* "Reset toggle state when image type changes"
ToggleResetEffect(p, s) ==
    IF p.selectedImageType # s.selectedImageType THEN 1 ELSE s.svgToggleState

Render(p, s) ==
    CykLoadEffect(p, s,
        [ s EXCEPT !.mainDom = RenderMainDom(p, s),
                   !.cykDom = RenderCykDom(p, s),
                   !.mainTimer = MainProcessEffect(p, s),
                   !.cykTimer = CykProcessEffect(p, s),
                   !.svgToggleState = ToggleResetEffect(p, s) ])

\* a batch of state writes is rendered; state written by the effects is rendered again
Commit(p, s) == LET r == Render(p, s) IN Render(s, r)

\* first render and mount effects
Mount(fam, types) ==
    LET s == InitialState(fam, types) IN Commit(s, InitialLoadEffect(s))

---------------------------------------------------------------------------
(* Actions *)

TypePool == { "rscape", "cons", "rchie", "rscape-cyk" }
Families == { "", "RF00001" }

dropdownTypes == Filter(availableTypes, Range(DROPDOWN_IMAGE_TYPES))

\* a HEAD request of initializeImages resolves
ProbeResolves ==
    \E k \in 1..Len(tasks), outcome \in ProbeOutcomes :
        /\ tasks[k].kind = "init" /\ tasks[k].phase = "probe"
        /\ Becomes(Commit(Cur, initializeImagesResume(Cur, k, outcome)))

\* a GET request of tryLoadImage resolves
FetchResolves ==
    \E k \in 1..Len(tasks), resp \in Responses :
        /\ tasks[k].kind = "init" /\ tasks[k].phase = "fetch"
        /\ Becomes(Commit(Cur, tryLoadImageResume(Cur, k, resp)))

\* mutant: the type <select> is not disabled while a load is running
UserSelectsType_whileLoading ==
    \E type \in Range(dropdownTypes) :
        /\ Len(dropdownTypes) > 1
        /\ switches < MaxSwitches
        /\ Becomes(Commit(Cur, handleImageTypeChange(Cur, type)))

\* the user picks an option of the type <select>
UserSelectsType ==
    \E type \in Range(dropdownTypes) :
        /\ Len(dropdownTypes) > 1
        /\ imageStatus # "loading"
        /\ switches < MaxSwitches
        /\ Becomes(Commit(Cur, handleImageTypeChange(Cur, type)))

\* the GET request of handleImageTypeChange resolves
SwitchResolves ==
    \E k \in 1..Len(tasks), resp \in Responses :
        /\ tasks[k].kind = "switch"
        /\ Becomes(Commit(Cur, handleImageTypeChangeResume(Cur, k, resp)))

\* the GET request of loadRscapeCyk resolves
CykResolves ==
    \E k \in 1..Len(tasks), resp \in Responses :
        /\ tasks[k].kind = "cyk"
        /\ Becomes(Commit(Cur, loadRscapeCykResume(Cur, k, resp)))

\* the timer of the main processing effect fires
MainTimerFires ==
    \E created \in BOOLEAN :
        /\ mainTimer
        /\ Becomes(Commit(Cur, initializePanZoom(processRscapeSvg(
               [ Cur EXCEPT !.mainTimer = FALSE ], "main"), "main", created)))

\* the timer of the CYK processing effect fires
CykTimerFires ==
    \E created \in BOOLEAN :
        /\ cykTimer
        /\ Becomes(Commit(Cur, initializePanZoom(processRscapeSvg(
               [ Cur EXCEPT !.cykTimer = FALSE ], "cyk"), "cyk", created)))

Init ==
    \E fam \in Families, types \in InjectiveSeqs(TypePool, MaxTypes) :
        LET s == Mount(fam, types) IN
        /\ familyAcc = s.familyAcc
        /\ imageTypes = s.imageTypes
        /\ selectedImageType = s.selectedImageType
        /\ svgContent = s.svgContent
        /\ imageStatus = s.imageStatus
        /\ errorMessage = s.errorMessage
        /\ availableTypes = s.availableTypes
        /\ rscapeStats = s.rscapeStats
        /\ svgToggleState = s.svgToggleState
        /\ loupePosition = s.loupePosition
        /\ isImageNotAvailable = s.isImageNotAvailable
        /\ rscapeCykContent = s.rscapeCykContent
        /\ rscapeCykStatus = s.rscapeCykStatus
        /\ rscapeCykStats = s.rscapeCykStats
        /\ isRscapeCykNotAvailable = s.isRscapeCykNotAvailable
        /\ panZoomInstanceRef = s.panZoomInstanceRef
        /\ panZoomCykInstanceRef = s.panZoomCykInstanceRef
        /\ mainDom = s.mainDom
        /\ cykDom = s.cykDom
        /\ mainTimer = s.mainTimer
        /\ cykTimer = s.cykTimer
        /\ liveMain = s.liveMain
        /\ liveCyk = s.liveCyk
        /\ tasks = s.tasks
        /\ probeLog = s.probeLog
        /\ initGets = s.initGets
        /\ switchGets = s.switchGets
        /\ cykGets = s.cykGets
        /\ switches = s.switches

Next ==
    \/ ProbeResolves
    \/ FetchResolves
    \/ UserSelectsType
    \/ SwitchResolves
    \/ CykResolves
    \/ MainTimerFires
    \/ CykTimerFires

Spec == Init /\ [][Next]_vars

---------------------------------------------------------------------------
(* The annotation pass on arbitrary diagrams: 'rscape' is loaded with a    *)
(* diagram drawn from all element lists up to MaxEls (and the ten-line     *)
(* fixture); the pass runs from the processing effect's timer, is run      *)
(* again on the same mounted diagram, and the same content is mounted      *)
(* again after a switch to another type and back.                          *)

AnnotEls ==
    { El("path", fill, sw, id, "") :
        fill \in { RSCAPE_COLORS.significant, "none" }, sw \in { "1.44", "0.5" },
        id \in { "", "text1000" } }
    \cup { El("tspan", fill, "", "", txt) :
        fill \in { RSCAPE_COLORS.conserved97, RSCAPE_COLORS.conserved90 }, txt \in { "R", "5'" } }
    \cup { El("text", "none", "", "text1000", "title") }

AnnotDiagrams == { FixtureA } \cup UNION { [1..n -> AnnotEls] : n \in 0..MaxEls }

\* initialization of << rscape, cons >>, both probes ok, the first GET returning the diagram
LoadedRscape(els) ==
    LET s0 == Mount("RF00001", << "rscape", "cons" >>)
        s1 == Commit(s0, initializeImagesResume(s0, 1, "ok"))
        s2 == Commit(s1, initializeImagesResume(s1, 1, "ok"))
    IN Commit(s2, tryLoadImageResume(s2, 1, Ok(SvgBody(els), FALSE)))

InitAnnot ==
    \E els \in AnnotDiagrams : \E s \in { LoadedRscape(els) } :
        /\ familyAcc = s.familyAcc
        /\ imageTypes = s.imageTypes
        /\ selectedImageType = s.selectedImageType
        /\ svgContent = s.svgContent
        /\ imageStatus = s.imageStatus
        /\ errorMessage = s.errorMessage
        /\ availableTypes = s.availableTypes
        /\ rscapeStats = s.rscapeStats
        /\ svgToggleState = s.svgToggleState
        /\ loupePosition = s.loupePosition
        /\ isImageNotAvailable = s.isImageNotAvailable
        /\ rscapeCykContent = s.rscapeCykContent
        /\ rscapeCykStatus = s.rscapeCykStatus
        /\ rscapeCykStats = s.rscapeCykStats
        /\ isRscapeCykNotAvailable = s.isRscapeCykNotAvailable
        /\ panZoomInstanceRef = s.panZoomInstanceRef
        /\ panZoomCykInstanceRef = s.panZoomCykInstanceRef
        /\ mainDom = s.mainDom
        /\ cykDom = s.cykDom
        /\ mainTimer = s.mainTimer
        /\ cykTimer = s.cykTimer
        /\ liveMain = s.liveMain
        /\ liveCyk = s.liveCyk
        /\ tasks = s.tasks
        /\ probeLog = s.probeLog
        /\ initGets = s.initGets
        /\ switchGets = s.switchGets
        /\ cykGets = s.cykGets
        /\ switches = s.switches

\* processRscapeSvg(svgContainerRef, setRscapeStats) called again on the mounted diagram
PassRunsAgain ==
    /\ mainDom.mounted /\ mainDom.passes >= 1 /\ mainDom.passes < MaxPasses
    /\ Becomes(Commit(Cur, processRscapeSvg(Cur, "main")))

\* the user switches to 'cons', which loads another diagram, and back to
\* 'rscape', for which the service returns the same content as before
SwitchAwayAndBack ==
    /\ imageStatus = "loaded" /\ selectedImageType = "rscape"
    /\ switches + 2 <= MaxSwitches
    /\ \E a1 \in { Commit(Cur, handleImageTypeChange(Cur, "cons")) } :
       \E a2 \in { Commit(a1, handleImageTypeChangeResume(a1, Len(a1.tasks),
                                                          Ok(SvgBody(FixtureB), FALSE))) } :
       \E a3 \in { Commit(a2, handleImageTypeChange(a2, "rscape")) } :
           Becomes(Commit(a3, handleImageTypeChangeResume(a3, Len(a3.tasks),
                                                          Ok(svgContent, FALSE))))

NextAnnot ==
    \/ MainTimerFires
    \/ PassRunsAgain
    \/ SwitchAwayAndBack

SpecAnnot == InitAnnot /\ [][NextAnnot]_vars

---------------------------------------------------------------------------
(* The layer toggle on arbitrary diagrams: a type is loaded with a diagram *)
(* drawn from all lists of up to MaxEls + 1 layer groups and other         *)
(* elements, and the user clicks on it.                                    *)

StateIs(s) ==
    /\ familyAcc = s.familyAcc
    /\ imageTypes = s.imageTypes
    /\ selectedImageType = s.selectedImageType
    /\ svgContent = s.svgContent
    /\ imageStatus = s.imageStatus
    /\ errorMessage = s.errorMessage
    /\ availableTypes = s.availableTypes
    /\ rscapeStats = s.rscapeStats
    /\ svgToggleState = s.svgToggleState
    /\ loupePosition = s.loupePosition
    /\ isImageNotAvailable = s.isImageNotAvailable
    /\ rscapeCykContent = s.rscapeCykContent
    /\ rscapeCykStatus = s.rscapeCykStatus
    /\ rscapeCykStats = s.rscapeCykStats
    /\ isRscapeCykNotAvailable = s.isRscapeCykNotAvailable
    /\ panZoomInstanceRef = s.panZoomInstanceRef
    /\ panZoomCykInstanceRef = s.panZoomCykInstanceRef
    /\ mainDom = s.mainDom
    /\ cykDom = s.cykDom
    /\ mainTimer = s.mainTimer
    /\ cykTimer = s.cykTimer
    /\ liveMain = s.liveMain
    /\ liveCyk = s.liveCyk
    /\ tasks = s.tasks
    /\ probeLog = s.probeLog
    /\ initGets = s.initGets
    /\ switchGets = s.switchGets
    /\ cykGets = s.cykGets
    /\ switches = s.switches

ToggleEls ==
    { El("g", "none", "", id, "") : id \in { "seq", "outline", "pairs" } }
    \cup { El("path", "none", "0.5", "", "") }

ToggleDiagrams == UNION { [1..n -> ToggleEls] : n \in 0..(MaxEls + 1) }

ToggleTypes == { "cons", "fcbp" }

\* initialization of << type >>, the probe ok, the GET returning the diagram
LoadedType(type, els) ==
    LET s0 == Mount("RF00001", << type >>)
        s1 == Commit(s0, initializeImagesResume(s0, 1, "ok"))
    IN Commit(s1, tryLoadImageResume(s1, 1, Ok(SvgBody(els), FALSE)))

InitToggle ==
    \E type \in ToggleTypes, els \in ToggleDiagrams : \E s \in { LoadedType(type, els) } : StateIs(s)

\* const canToggle = !isRscapeType && !isRchieType && svgContent?.includes('<svg')
canToggle == ~isRscapeType(Cur) /\ selectedImageType # "rchie" /\ Includes_svg(svgContent)

\* onClick={canToggle ? handleSvgClick : undefined} on the non-R-scape container
UserClicksDiagram ==
    /\ MainShown(Cur) /\ ~isRscapeType(Cur) /\ Truthy(svgContent)
    /\ canToggle
    /\ Becomes(Commit(Cur, handleSvgClick(Cur)))

NextToggle == UserClicksDiagram

SpecToggle == InitToggle /\ [][NextToggle]_vars

---------------------------------------------------------------------------
(* A host that changes the entity: the widget is mounted for one family    *)
(* with the candidate list << rscape >>, and the host passes another       *)
(* familyAcc at any moment, up to MaxReinits times.  With one candidate    *)
(* the type selector is not rendered, so there is no user switch.          *)

FamilyChain == << "RF00001", "RF00002", "RF00003", "RF00004" >>

\* the cleanup of the initial load effect
InitialLoadCleanup(s) == DestroyPanZoom(DestroyPanZoom(s, "main"), "cyk")

\* a render with a new familyAcc prop: the effects that depend on it are
\* cleaned up and run again, the state of the hooks is kept
PropsChange(s, fam) ==
    LET a == InitialLoadCleanup([ s EXCEPT !.familyAcc = fam ])
        r == Render(s, a)
    IN Render(a, InitialLoadEffect(r))

HostChangesFamily ==
    \E i \in 1..MaxReinits :
        /\ i < Len(FamilyChain) /\ familyAcc = FamilyChain[i]
        /\ \E n \in { PropsChange(Cur, FamilyChain[i + 1]) } : Becomes(n)

InitReinit == \E s \in { Mount(FamilyChain[1], << "rscape" >>) } : StateIs(s)

NextReinit ==
    \/ ProbeResolves
    \/ FetchResolves
    \/ CykResolves
    \/ MainTimerFires
    \/ CykTimerFires
    \/ HostChangesFamily

SpecReinit == InitReinit /\ [][NextReinit]_vars

---------------------------------------------------------------------------
(* Type switches and clicks together: the widget is mounted with the       *)
(* candidates << cons, fcbp >>, the service answers with diagrams that     *)
(* have the toggle layers, the user clicks on the diagram shown and picks  *)
(* the other type, and the host passes another familyAcc once the         *)
(* requests have resolved, which runs initialization, and with it the      *)
(* fallback selection, again.                                              *)

LayeredDiagram ==
    << El("g", "none", "", "seq", ""), El("g", "none", "", "outline", ""),
       El("g", "none", "", "pairs", "") >>

LayeredResponses == { NotOk, Ok(SvgBody(LayeredDiagram), FALSE) }

\* a GET request of tryLoadImage resolves with a layered diagram or a failure
LayeredFetchResolves ==
    \E k \in 1..Len(tasks), resp \in LayeredResponses :
        /\ tasks[k].kind = "init" /\ tasks[k].phase = "fetch"
        /\ Becomes(Commit(Cur, tryLoadImageResume(Cur, k, resp)))

\* the GET request of handleImageTypeChange resolves with a layered diagram or a failure
LayeredSwitchResolves ==
    \E k \in 1..Len(tasks), resp \in LayeredResponses :
        /\ tasks[k].kind = "switch"
        /\ Becomes(Commit(Cur, handleImageTypeChangeResume(Cur, k, resp)))

InitSwitchToggle == \E s \in { Mount(FamilyChain[1], << "cons", "fcbp" >>) } : StateIs(s)

\* the number of times the host has changed familyAcc so far
FamilyChanges == (CHOOSE i \in 1..Len(FamilyChain) : FamilyChain[i] = familyAcc) - 1

\* the user's switches and the host's changes are MaxSwitches in all
UserSwitchesType == switches + FamilyChanges < MaxSwitches /\ UserSelectsType

\* the host passes another familyAcc while no request is in flight
HostReplacesEntity ==
    /\ tasks = << >>
    /\ switches + FamilyChanges < MaxSwitches
    /\ HostChangesFamily

NextSwitchToggle ==
    \/ ProbeResolves
    \/ LayeredFetchResolves
    \/ UserSwitchesType
    \/ LayeredSwitchResolves
    \/ UserClicksDiagram
    \/ HostReplacesEntity

SpecSwitchToggle == InitSwitchToggle /\ [][NextSwitchToggle]_vars

---------------------------------------------------------------------------
(* Loads in flight across a change of the props: the widget is mounted     *)
(* with << cons >>, the host passes another familyAcc or another           *)
(* imageTypes at any moment, and the service answers a GET with the        *)
(* diagram of the entity named in the request's URL, or with a failure.    *)

TypesChain == << << "cons" >>, << "fcbp" >>, << "cov" >>, << "ent" >> >>

\* a render with a new imageTypes prop: the initial load effect is cleaned up and run again
TypesChange(s, types) ==
    LET a == InitialLoadCleanup([ s EXCEPT !.imageTypes = types ])
        r == Render(s, a)
    IN Render(a, InitialLoadEffect(r))

\* the number of times the host has changed a prop so far
PropChanges ==
    (CHOOSE i \in 1..Len(FamilyChain) : FamilyChain[i] = familyAcc)
    + (CHOOSE j \in 1..Len(TypesChain) : TypesChain[j] = imageTypes) - 2

HostChangesTypes ==
    \E i \in 1..MaxReinits :
        /\ PropChanges < MaxReinits
        /\ i < Len(TypesChain) /\ imageTypes = TypesChain[i]
        /\ \E n \in { TypesChange(Cur, TypesChain[i + 1]) } : Becomes(n)

HostChangesEntity == PropChanges < MaxReinits /\ HostChangesFamily

\* the diagram the service holds for an entity
EntityDiagram(fam) == << El("g", "none", "", fam, "") >>

\* what GET <base>/<fam>/image/<type> can resolve to
EntityResponses(fam) == { NotOk, Ok(SvgBody(EntityDiagram(fam)), FALSE) }

\* a GET request of tryLoadImage resolves; the URL was built when the sequence started
EntityFetchResolves ==
    \E k \in 1..Len(tasks) : \E resp \in EntityResponses(tasks[k].fam) :
        /\ tasks[k].kind = "init" /\ tasks[k].phase = "fetch"
        /\ Becomes(Commit(Cur, tryLoadImageResume(Cur, k, resp)))

InitStale == \E s \in { Mount(FamilyChain[1], TypesChain[1]) } : StateIs(s)

NextStale ==
    \/ ProbeResolves
    \/ EntityFetchResolves
    \/ HostChangesEntity
    \/ HostChangesTypes

SpecStale == InitStale /\ [][NextStale]_vars

---------------------------------------------------------------------------
(* Declared dimensions: 'rscape' is loaded with a diagram whose root       *)
(* declares a width and a height drawn from the values around 0 and around *)
(* the floor of 400, or declares none; the companion arrives the same way; *)
(* the timer callbacks run the annotation pass and bind pan/zoom.          *)

Dimensions ==
    { NoAttr } \cup { Attr(n) : n \in (0 - DimSpread)..DimSpread }
               \cup { Attr(n) : n \in (400 - DimSpread)..(400 + DimSpread) }

\* initialization of << rscape >>, the probe ok, the GET returning the sized diagram
LoadedSized(width, height) ==
    LET s0 == Mount("RF00001", << "rscape" >>)
        s1 == Commit(s0, initializeImagesResume(s0, 1, "ok"))
    IN Commit(s1, tryLoadImageResume(s1, 1, Ok(SizedSvgBody(FixtureA, width, height), FALSE)))

InitSize ==
    \E width \in Dimensions, height \in Dimensions :
        \E s \in { LoadedSized(width, height) } : StateIs(s)

\* the GET request of loadRscapeCyk resolves with a sized diagram
SizedCykResolves ==
    \E k \in 1..Len(tasks), side \in Dimensions :
        /\ tasks[k].kind = "cyk"
        /\ Becomes(Commit(Cur, loadRscapeCykResume(Cur, k,
               Ok(SizedSvgBody(FixtureB, side, side), FALSE))))

NextSize ==
    \/ MainTimerFires
    \/ SizedCykResolves
    \/ CykTimerFires

SpecSize == InitSize /\ [][NextSize]_vars

---------------------------------------------------------------------------
(* The loupe: 'rchie' is loaded and the pointer moves over the image, at   *)
(* client positions and image origins drawn from a grid, and leaves it.    *)

PointerPositions == { 100 + 40 * i : i \in 0..MaxPointer }

ImageOrigins == { [ left |-> left, top |-> top ] : left \in { 0, 100 }, top \in { 0, 100 } }

\* initialization of << rchie >>, the probe ok, the GET returning the PNG
LoadedRchie ==
    LET s0 == Mount("RF00001", << "rchie" >>)
        s1 == Commit(s0, initializeImagesResume(s0, 1, "ok"))
    IN Commit(s1, tryLoadImageResume(s1, 1, Ok(RawBody, TRUE)))

InitLoupe == \E s \in { LoadedRchie } : StateIs(s)

\* onMouseMove of the ss-rchie-wrapper
UserMovesPointer ==
    \E clientX \in PointerPositions, clientY \in PointerPositions, rect \in ImageOrigins :
        /\ RchieImageShown(Cur)
        /\ Becomes(Commit(Cur, handleRchieMouseMove(Cur, clientX, clientY, rect)))

\* onMouseLeave of the ss-rchie-wrapper
UserLeavesImage ==
    /\ RchieImageShown(Cur)
    /\ Becomes(Commit(Cur, handleRchieMouseLeave(Cur)))

NextLoupe ==
    \/ UserMovesPointer
    \/ UserLeavesImage

SpecLoupe == InitLoupe /\ [][NextLoupe]_vars

---------------------------------------------------------------------------
(* A host that omits imageTypes: the parameter default is evaluated at     *)
(* every render and gives a new array each time, so the dependency list of *)
(* the initial load effect differs at every render and the effect is       *)
(* cleaned up and run again.  The service holds 'cons' and 'fcbp'.  The    *)
(* probe rounds are unbounded; steps beyond MaxReinits re-initializations  *)
(* in flight, or beyond the probes of MaxReinits + 1 rounds, are cut off.  *)

DefaultImageTypes == << "rscape", "cons", "norm", "cov", "ent", "maxcm", "fcbp", "rchie" >>

ServiceHolds == { "cons", "fcbp" }

\* the values of the useState hooks: a setter call with an equal value renders nothing
HookState(s) ==
    << s.selectedImageType, s.svgContent, s.imageStatus, s.errorMessage, s.rscapeStats,
       s.svgToggleState, s.loupePosition, s.isImageNotAvailable, s.rscapeCykContent,
       s.rscapeCykStatus, s.rscapeCykStats, s.isRscapeCykNotAvailable >>

\* one render with the default imageTypes: every effect of Render, and the initial load effect
RenderDefaultTypes(p, s) == InitialLoadEffect(InitialLoadCleanup(Render(p, s)))

\* a batch of state writes is rendered; state written by the effects is rendered again
CommitDefaultTypes(p, s) ==
    LET r == RenderDefaultTypes(p, s)
    IN IF HookState(r) = HookState(s) THEN r ELSE RenderDefaultTypes(s, r)

WithinRounds(s) ==
    /\ Len(s.tasks) <= MaxReinits + 1
    /\ Len(s.probeLog) <= (MaxReinits + 1) * Len(DefaultImageTypes)

\* a HEAD request resolves; setAvailableTypes(available) after the last one renders
DefaultProbeResolves ==
    \E k \in 1..Len(tasks) :
        /\ tasks[k].kind = "init" /\ tasks[k].phase = "probe"
        /\ \E s \in { initializeImagesResume(Cur, k, IF tasks[k].type \in ServiceHolds
                                                      THEN "ok" ELSE "notok") } :
           \E n \in { IF tasks[k].i = Len(tasks[k].check) THEN CommitDefaultTypes(Cur, s) ELSE s } :
               WithinRounds(n) /\ Becomes(n)

\* a GET request of tryLoadImage resolves
DefaultFetchResolves ==
    \E k \in 1..Len(tasks), resp \in LayeredResponses :
        /\ tasks[k].kind = "init" /\ tasks[k].phase = "fetch"
        /\ \E s \in { tryLoadImageResume(Cur, k, resp) } :
           \E n \in { IF HookState(s) # HookState(Cur) THEN CommitDefaultTypes(Cur, s) ELSE s } :
               WithinRounds(n) /\ Becomes(n)

InitDefaultTypes == \E s \in { Mount(FamilyChain[1], DefaultImageTypes) } : StateIs(s)

NextDefaultTypes ==
    \/ DefaultProbeResolves
    \/ DefaultFetchResolves

SpecDefaultTypes == InitDefaultTypes /\ [][NextDefaultTypes]_vars

---------------------------------------------------------------------------
(* Responses that tell which diagram they are: the widget is mounted for   *)
(* one family with any list of the types rscape, cons and rchie, and the   *)
(* service answers GET <base>/<fam>/image/<type> with the vector diagram   *)
(* of that type, with the 'not available' PNG, which is the same for every *)
(* type, or with a failure.                                                *)

DiagramTypes == { "rscape", "cons", "rchie" }

\* the diagram the service holds for a type
TypeDiagram(type) == << El("g", "none", "", type, "") >>

\* what GET <base>/<fam>/image/<type> can resolve to
TypeResponses(type) == { NotOk, Ok(RawBody, TRUE), Ok(SvgBody(TypeDiagram(type)), FALSE) }

\* a GET request of tryLoadImage resolves; the URL names the type
TypedFetchResolves ==
    \E k \in 1..Len(tasks) : \E resp \in TypeResponses(tasks[k].type) :
        /\ tasks[k].kind = "init" /\ tasks[k].phase = "fetch"
        /\ Becomes(Commit(Cur, tryLoadImageResume(Cur, k, resp)))

\* the GET request of handleImageTypeChange resolves; the URL names the type
TypedSwitchResolves ==
    \E k \in 1..Len(tasks) : \E resp \in TypeResponses(tasks[k].type) :
        /\ tasks[k].kind = "switch"
        /\ Becomes(Commit(Cur, handleImageTypeChangeResume(Cur, k, resp)))

\* the GET request of loadRscapeCyk resolves; the URL names rscape-cacofold
TypedCykResolves ==
    \E k \in 1..Len(tasks) : \E resp \in TypeResponses(tasks[k].type) :
        /\ tasks[k].kind = "cyk"
        /\ Becomes(Commit(Cur, loadRscapeCykResume(Cur, k, resp)))

InitTyped ==
    \E types \in InjectiveSeqs(DiagramTypes, MaxTypes) :
        \E s \in { Mount("RF00001", types) } : StateIs(s)

NextTyped ==
    \/ ProbeResolves
    \/ TypedFetchResolves
    \/ UserSelectsType
    \/ TypedSwitchResolves
    \/ TypedCykResolves
    \/ MainTimerFires
    \/ CykTimerFires

SpecTyped == InitTyped /\ [][NextTyped]_vars

---------------------------------------------------------------------------
(* Vocabulary of the properties *)

Configured == familyAcc # "" /\ Len(imageTypes) > 0

TypesToCheck == Filter(imageTypes, Range(DROPDOWN_IMAGE_TYPES))

Pending(kind) == \E k \in 1..Len(tasks) : tasks[k].kind = kind

MainLoadPending == Pending("init") \/ Pending("switch")

Settled == imageStatus \in { "loaded", "error" }

TypesOf(log) == [ i \in 1..Len(log) |-> log[i].type ]

ProbedOk == { probeLog[i].type : i \in { j \in 1..Len(probeLog) : probeLog[j].outcome = "ok" } }

InitializationDone == Configured /\ ~Pending("init")

---------------------------------------------------------------------------
(* C1: for a non-empty familyAcc and a non-empty imageTypes, whenever no    *)
(* probe or fetch of initialization or of a type switch is outstanding,    *)
(* imageStatus is 'loaded' or 'error' and not 'loading'; initialization    *)
(* settles after at most one probe per candidate and one fetch per         *)
(* available candidate.                                                    *)

C1_InitializationSettles ==
    Configured =>
        /\ ~MainLoadPending => Settled
        /\ Len(probeLog) <= Len(TypesToCheck)
        /\ Len(initGets) <= Cardinality(ProbedOk)

C1_Witness ==
    /\ Configured /\ ~MainLoadPending /\ imageStatus = "error"
    /\ Len(probeLog) = 3 /\ Len(initGets) = 2 /\ switches = 0

---------------------------------------------------------------------------
(* C2: tryLoadImage never peeks ahead.  The GETs of initialization follow  *)
(* the available candidates in order; every GET before the last one issued *)
(* has failed, so none is issued after a structurally valid response; the  *)
(* candidate that returned it is selected and shown as 'loaded'; if the    *)
(* first available candidate returns a valid response, initialization      *)
(* makes exactly one content fetch.                                        *)

C2_NeverPeeksAhead ==
    /\ \A i \in 1..Len(initGets) :
          /\ i <= Len(availableTypes) /\ initGets[i].type = availableTypes[i]
          /\ i < Len(initGets) => initGets[i].outcome = "failed"
    /\ \A i \in 1..Len(initGets) :
          initGets[i].outcome = "valid" /\ switches = 0 =>
              /\ selectedImageType = initGets[i].type
              /\ imageStatus = "loaded"
              /\ ~Pending("init")
    /\ Len(initGets) > 0 /\ initGets[1].outcome = "valid" => Len(initGets) = 1

C2_Witness ==
    /\ Len(availableTypes) = 3 /\ ~Pending("init")
    /\ Len(initGets) = 1 /\ initGets[1].outcome = "valid"
    /\ Includes_svg(svgContent) /\ selectedImageType = availableTypes[1]

---------------------------------------------------------------------------
(* C3: whenever a structurally valid response has been loaded, the         *)
(* placeholder flag isImageNotAvailable is true exactly when the content   *)
(* has no '<svg' and the type is not 'rchie'; a valid response, placeholder *)
(* or not, gives imageStatus 'loaded', never 'error'.                      *)

C3_PlaceholderFlag ==
    /\ imageStatus = "loaded" =>
          isImageNotAvailable = (svgContent.kind # "svg" /\ selectedImageType # "rchie")
    /\ switches = 0 /\ (\E i \in 1..Len(initGets) : initGets[i].outcome = "valid") =>
          imageStatus = "loaded"
    /\ Len(switchGets) > 0 /\ switchGets[Len(switchGets)].outcome = "valid" =>
          imageStatus = "loaded"

C3_Witness ==
    /\ imageStatus = "loaded" /\ isImageNotAvailable
    /\ svgContent = RawBody /\ selectedImageType = "cons"

---------------------------------------------------------------------------
(* C4: after initialization, the candidates fetched are exactly those that *)
(* probed available, tried in configured order up to the first one whose   *)
(* response is structurally valid; if there is such a candidate the state  *)
(* is 'loaded' with it selected, candidates that probed unavailable are    *)
(* never fetched and a candidate whose fetch failed is skipped.            *)

AvailableInOrder == Filter(imageTypes, ProbedOk)

C4_FirstAvailableValidSelected ==
    InitializationDone /\ switches = 0 =>
        /\ Len(initGets) <= Len(AvailableInOrder)
        /\ \A i \in 1..Len(initGets) : initGets[i].type = AvailableInOrder[i]
        /\ \A i \in 1..Len(initGets) : initGets[i].outcome # "pending"
        /\ \A i \in 1..Len(initGets) :
              initGets[i].outcome = "valid" =>
                  /\ imageStatus = "loaded"
                  /\ selectedImageType = AvailableInOrder[i]
                  /\ \A j \in 1..(i - 1) : initGets[j].outcome = "failed"
        /\ (\A i \in 1..Len(initGets) : initGets[i].outcome = "failed") =>
              Len(initGets) = Len(AvailableInOrder) /\ imageStatus = "error"

\* [A, B, C]: A unavailable, B's fetch fails, C returns SVG
C4_Witness ==
    /\ InitializationDone /\ switches = 0
    /\ imageTypes = << "cons", "rchie", "rscape" >>
    /\ TypesOf(probeLog) = imageTypes
    /\ probeLog[1].outcome # "ok" /\ probeLog[2].outcome = "ok" /\ probeLog[3].outcome = "ok"
    /\ initGets = << [ type |-> "rchie", outcome |-> "failed" ],
                     [ type |-> "rscape", outcome |-> "valid" ] >>
    /\ imageStatus = "loaded" /\ selectedImageType = "rscape"
    /\ Includes_svg(svgContent) /\ ~isImageNotAvailable

---------------------------------------------------------------------------
(* C5: if every candidate probes as unavailable, imageStatus is 'error'    *)
(* with the fixed message and no GET request is ever issued.               *)

AllProbedUnavailable ==
    /\ InitializationDone
    /\ Len(probeLog) = Len(TypesToCheck)
    /\ \A i \in 1..Len(probeLog) : probeLog[i].outcome # "ok"

C5_NoneAvailable ==
    AllProbedUnavailable =>
        /\ imageStatus = "error"
        /\ errorMessage = "No secondary structure images available for this family."
        /\ initGets = << >> /\ switchGets = << >> /\ cykGets = 0
        /\ tasks = << >>

C5_Witness ==
    /\ AllProbedUnavailable /\ Len(probeLog) = 3 /\ imageStatus = "error"
    /\ \E i \in 1..3 : probeLog[i].outcome = "throw"

---------------------------------------------------------------------------
(* C6: if the content fetch of every available candidate fails, the state  *)
(* is 'error' with the fixed message after exactly one GET per available   *)
(* candidate, in order; nothing is outstanding or scheduled afterwards, and *)
(* initialization never issues another GET.                                *)

AllInitFetchesFailed ==
    /\ InitializationDone /\ Len(initGets) > 0
    /\ \A i \in 1..Len(initGets) : initGets[i].outcome = "failed"

C6_ExhaustionIsTerminal ==
    AllInitFetchesFailed =>
        /\ TypesOf(initGets) = availableTypes
        /\ availableTypes = AvailableInOrder
        /\ switches = 0 =>
              /\ imageStatus = "error"
              /\ errorMessage = "No secondary structure images available for this family."
              /\ tasks = << >> /\ ~mainTimer /\ ~cykTimer
              /\ switchGets = << >> /\ cykGets = 0

C6_Witness ==
    /\ AllInitFetchesFailed /\ switches = 0
    /\ Len(initGets) = 3 /\ imageStatus = "error"

---------------------------------------------------------------------------
(* C7: a probe whose HEAD request throws counts as unavailable for that    *)
(* type only: the type is neither listed as available nor fetched, the     *)
(* remaining candidates are still probed, and the candidates that probed   *)
(* ok are all kept.                                                        *)

ProbingDone == Configured /\ ~(\E k \in 1..Len(tasks) : tasks[k].kind = "init" /\ tasks[k].phase = "probe")

C7_ProbeFailureIsAbsence ==
    /\ \A i \in 1..Len(probeLog) :
          probeLog[i].outcome = "throw" =>
              /\ probeLog[i].type \notin Range(availableTypes)
              /\ \A j \in 1..Len(initGets) : initGets[j].type # probeLog[i].type
              /\ \A k \in 1..Len(tasks) : probeLog[i].type \notin Range(tasks[k].available)
    /\ Len(probeLog) <= Len(TypesToCheck)
    /\ \A i \in 1..Len(probeLog) : probeLog[i].type = TypesToCheck[i]
    /\ Configured /\ Len(probeLog) < Len(TypesToCheck) =>
          \E k \in 1..Len(tasks) :
              /\ tasks[k].kind = "init" /\ tasks[k].phase = "probe"
              /\ tasks[k].type = TypesToCheck[Len(probeLog) + 1]
    /\ ProbingDone => availableTypes = AvailableInOrder

C7_Witness ==
    /\ Len(probeLog) = 3 /\ probeLog[1].outcome = "throw" /\ probeLog[2].outcome = "ok"
    /\ imageStatus = "loaded" /\ selectedImageType = probeLog[2].type

---------------------------------------------------------------------------
(* C8: a user switch to another type sets imageStatus 'loading' and        *)
(* selectedImageType to the new type and issues exactly one GET, for that  *)
(* type; the selected type stays, with 'loaded' when the response is valid *)
(* and 'error' with 'Failed to load <type> image.' when it is not, and no  *)
(* other candidate is fetched.                                             *)

SwitchErrorMessage(type) ==
    CASE type = "rscape" -> "Failed to load rscape image."
      [] type = "cons" -> "Failed to load cons image."
      [] type = "rchie" -> "Failed to load rchie image."
      [] OTHER -> "?"

C8_SwitchLoadsOneType ==
    switches > 0 =>
        /\ Len(switchGets) = 1 /\ switchGets[1].type = selectedImageType
        /\ ~Pending("init") /\ Len(initGets) <= Len(availableTypes)
        /\ switchGets[1].outcome = "pending" => imageStatus = "loading" /\ Pending("switch")
        /\ switchGets[1].outcome = "valid" => imageStatus = "loaded" /\ ~Pending("switch")
        /\ switchGets[1].outcome = "failed" =>
              /\ imageStatus = "error" /\ ~Pending("switch")
              /\ errorMessage = SwitchErrorMessage(selectedImageType)

C8_Witness ==
    /\ switches = 2 /\ switchGets = << [ type |-> "cons", outcome |-> "failed" ] >>
    /\ imageStatus = "error" /\ errorMessage = "Failed to load cons image."
    /\ selectedImageType = "cons"

---------------------------------------------------------------------------
(* C9: each diagram slot has at most one pan/zoom instance that was        *)
(* created and not destroyed, namely the one its ref holds, after any      *)
(* number of type switches.                                                *)

C9_OneLiveInstancePerSlot ==
    /\ liveMain = (IF panZoomInstanceRef = "null" THEN 0 ELSE 1)
    /\ liveCyk = (IF panZoomCykInstanceRef = "null" THEN 0 ELSE 1)

C9_Witness ==
    /\ switches = 2 /\ liveMain = 1 /\ liveCyk = 1
    /\ panZoomInstanceRef = "instance" /\ panZoomCykInstanceRef = "instance"

---------------------------------------------------------------------------
(* C10: the annotation pass does not accumulate.  Every run publishes the  *)
(* counts of the elements the mounted diagram holds at that moment: a      *)
(* freshly mounted diagram gives the counts of its content, also when the  *)
(* same content is mounted again after another diagram, and a further run  *)
(* on the same diagram gives the same counts, less the elements with id    *)
(* 'text1000' that earlier runs removed when these were counted paths.     *)

IsPairingLine(e) == e.tag = "path" /\ e.sw = "1.44"
IsSignificantPath(e) == e.tag = "path" /\ e.fill = "#31a354"

CountsOf(els) ==
    [ basepairs |-> Cardinality({ i \in 1..Len(els) : IsPairingLine(els[i]) }),
      significantBasepairs |-> Cardinality({ i \in 1..Len(els) : IsSignificantPath(els[i]) }) ]

\* the positions of els that are left once the first n elements with id 'text1000' are gone
TitlePositions(els) == { i \in 1..Len(els) : els[i].id = "text1000" }
KeptPositions(els, n) ==
    { i \in 1..Len(els) :
        i \in TitlePositions(els) => Cardinality({ j \in TitlePositions(els) : j <= i }) > n }
CountsAfterRemovals(els, n) ==
    [ basepairs |-> Cardinality({ i \in KeptPositions(els, n) : IsPairingLine(els[i]) }),
      significantBasepairs |->
          Cardinality({ i \in KeptPositions(els, n) : IsSignificantPath(els[i]) }) ]

C10_PassDoesNotAccumulate ==
    mainDom.mounted /\ mainDom.passes >= 1 =>
        /\ rscapeStats = CountsAfterRemovals(svgContent.els, mainDom.passes - 1)
        /\ mainDom.passes = 1 => rscapeStats = CountsOf(svgContent.els)
        /\ (\A i \in TitlePositions(svgContent.els) :
               ~IsPairingLine(svgContent.els[i]) /\ ~IsSignificantPath(svgContent.els[i]))
           => rscapeStats = CountsOf(svgContent.els)

\* the ten-line fixture, mounted again after another diagram, the pass run twice
C10_Witness ==
    /\ svgContent = SvgBody(FixtureA) /\ switches = 2
    /\ mainDom.mounted /\ mainDom.passes = 2
    /\ rscapeStats = [ basepairs |-> 10, significantBasepairs |-> 3 ]

\* C10 as stated: the pass does not accumulate and a further run repeats the
\* counts, so every run on a mounted diagram, the first or a further one,
\* after any remount, publishes the counts of the diagram's content
C10_Original ==
    mainDom.mounted /\ mainDom.passes >= 1 => rscapeStats = CountsOf(svgContent.els)

---------------------------------------------------------------------------
(* C11: on a diagram of a type other than 'rscape' and 'rchie' that has    *)
(* the three layers #seq, #outline and #pairs, every click moves the phase *)
(* 1 -> 2 -> 3 -> 1 and leaves the layers with exactly the visibility of   *)
(* the new phase: all visible in 1, only #seq hidden in 2, only #seq       *)
(* visible in 3; three clicks from all-visible lead back to all-visible.   *)

LayerOf(dom, id) ==
    CHOOSE i \in 1..Len(dom.els) :
        dom.els[i].id = id /\ \A j \in 1..(i - 1) : dom.els[j].id # id

HasLayer(dom, id) == \E i \in 1..Len(dom.els) : dom.els[i].id = id

LayerVisibility(dom) ==
    [ id \in { "seq", "outline", "pairs" } |-> dom.els[LayerOf(dom, id)].visibility ]

PhaseVisibility(phase) ==
    CASE phase = 1 -> [ seq |-> "visible", outline |-> "visible", pairs |-> "visible" ]
      [] phase = 2 -> [ seq |-> "hidden", outline |-> "visible", pairs |-> "visible" ]
      [] phase = 3 -> [ seq |-> "visible", outline |-> "hidden", pairs |-> "hidden" ]

AsRecord(f) == [ seq |-> f["seq"], outline |-> f["outline"], pairs |-> f["pairs"] ]

ToggleEligible ==
    /\ selectedImageType \notin { "rscape", "rchie" }
    /\ mainDom.mounted
    /\ \A id \in { "seq", "outline", "pairs" } : HasLayer(mainDom, id)

AfterClick(phase) == IF phase = 1 THEN 2 ELSE IF phase = 2 THEN 3 ELSE 1

C11_ToggleCycle ==
    [][ToggleEligible =>
          /\ svgToggleState' = AfterClick(svgToggleState)
          /\ AsRecord(LayerVisibility(mainDom')) = PhaseVisibility(svgToggleState')
          /\ AfterClick(AfterClick(svgToggleState')) = svgToggleState]_vars

\* back in phase 1 with every layer set visible, which only a third click does
C11_Witness ==
    /\ ToggleEligible /\ svgToggleState = 1
    /\ AsRecord(LayerVisibility(mainDom)) = PhaseVisibility(1)

---------------------------------------------------------------------------
(* C12: the resolution of a companion load, be it genuine content, a       *)
(* placeholder or a failure, leaves imageStatus, svgContent,               *)
(* selectedImageType, isImageNotAvailable and errorMessage as they were,   *)
(* and with them everything else of the primary slot: it writes the        *)
(* comparator-slot variables only.                                         *)

NumTasks(kind) == Cardinality({ k \in 1..Len(tasks) : tasks[k].kind = kind })

C12_ComparatorLeavesPrimaryAlone ==
    [][NumTasks("cyk")' < NumTasks("cyk") =>
          /\ UNCHANGED << imageStatus, svgContent, selectedImageType, isImageNotAvailable,
                          errorMessage >>
          /\ UNCHANGED << familyAcc, imageTypes, availableTypes, rscapeStats, svgToggleState,
                          panZoomInstanceRef, mainDom, mainTimer, liveMain, probeLog,
                          initGets, switchGets, switches >>]_vars

\* the companion load has failed next to a primary diagram that stays loaded
C12_Witness ==
    /\ rscapeCykStatus = "error" /\ isRscapeCykNotAvailable /\ ~Pending("cyk")
    /\ imageStatus = "loaded" /\ selectedImageType = "rscape" /\ ~isImageNotAvailable
    /\ Includes_svg(svgContent) /\ errorMessage = ""

---------------------------------------------------------------------------
(* C13: initialization issues no GET while a probe is outstanding: when    *)
(* the first GET exists every candidate has been probed, and the list      *)
(* tryLoadImage works through is the candidates that probed ok, in         *)
(* configured order.                                                       *)

ProbesOutstanding ==
    \E k \in 1..Len(tasks) : tasks[k].kind = "init" /\ tasks[k].phase = "probe"

C13_ProbesBeforeFetches ==
    /\ ProbesOutstanding \/ Len(probeLog) < Len(TypesToCheck) => initGets = << >>
    /\ initGets # << >> =>
          /\ TypesOf(probeLog) = TypesToCheck
          /\ TypesOf(initGets) = [ i \in 1..Len(initGets) |-> Filter(imageTypes, ProbedOk)[i] ]
    /\ \A k \in 1..Len(tasks) :
          tasks[k].kind = "init" /\ tasks[k].phase = "fetch" =>
              /\ TypesOf(probeLog) = TypesToCheck
              /\ tasks[k].available = Filter(imageTypes, ProbedOk)
              /\ tasks[k].available = availableTypes
              /\ tasks[k].type = tasks[k].available[Len(initGets)]

\* three candidates probed, the first unavailable, the first GET outstanding
C13_Witness ==
    /\ Len(probeLog) = 3 /\ probeLog[1].outcome = "notok"
    /\ probeLog[2].outcome = "ok" /\ probeLog[3].outcome = "ok"
    /\ Len(initGets) = 1 /\ initGets[1].outcome = "pending"
    /\ initGets[1].type = imageTypes[2]

---------------------------------------------------------------------------
(* C14: when a user switch starts, the previously loaded content is no     *)
(* longer displayed: while the switch is loading, and after it has failed, *)
(* no diagram is mounted in either slot.  The stored svgContent is not     *)
(* cleared: the switch leaves it as it was, a failed load too, and only a  *)
(* successful load replaces it.                                            *)

SwitchLoadingOrFailed == Pending("switch") \/ (switches > 0 /\ imageStatus = "error")

C14_PreviousContentNotShown ==
    /\ [](SwitchLoadingOrFailed =>
              /\ imageStatus \in { "loading", "error" }
              /\ ~mainDom.mounted /\ ~cykDom.mounted)
    /\ [][switches' > switches => imageStatus' = "loading" /\ svgContent' = svgContent]_vars
    /\ [][Pending("switch") /\ imageStatus' = "error" => svgContent' = svgContent]_vars

\* a switch has failed and the content loaded before it is still stored, not shown
C14_Witness ==
    /\ switches > 0 /\ imageStatus = "error" /\ ~Pending("switch")
    /\ Includes_svg(svgContent) /\ ~mainDom.mounted

\* C14 as stated: from the moment the switch is loading, and after it has
\* failed, svgContent no longer holds the content loaded before
C14_Original ==
    SwitchLoadingOrFailed => svgContent = EmptyBody

---------------------------------------------------------------------------
(* C15: once imageStatus is 'error', no step other than a user type switch *)
(* changes it or issues a request: no probe, fetch or retry is outstanding *)
(* for the main slot and nothing is scheduled.  The type selector stays    *)
(* enabled in 'error', so with more than one available type the user can   *)
(* switch: that step gives 'loading' and issues one GET for the new type.  *)

C15_ErrorLeftOnlyBySwitch ==
    /\ [](imageStatus = "error" => ~MainLoadPending /\ ~mainTimer)
    /\ [][imageStatus = "error" /\ switches' = switches =>
              /\ imageStatus' = "error"
              /\ UNCHANGED << errorMessage, initGets, switchGets, cykGets, probeLog >>]_vars
    /\ [][imageStatus = "error" /\ switches' # switches =>
              /\ Len(dropdownTypes) > 1
              /\ imageStatus' = "loading"
              /\ selectedImageType' # selectedImageType
              /\ switchGets' = << [ type |-> selectedImageType', outcome |-> "pending" ] >>]_vars

\* after a failed switch the user has switched again and that load succeeded
C15_Witness ==
    /\ switches = 2 /\ imageStatus = "loaded"
    /\ \E i \in 1..Len(initGets) : initGets[i].outcome = "valid"
    /\ selectedImageType = availableTypes[1] /\ Len(availableTypes) = 2
    /\ errorMessage # ""

\* C15 as stated: once imageStatus is 'error' no later step, a user switch
\* included, changes it or issues a fetch
C15_Original ==
    [][imageStatus = "error" =>
          /\ imageStatus' = "error"
          /\ UNCHANGED << initGets, switchGets, cykGets >>]_vars

---------------------------------------------------------------------------
(* C17: a slot that holds a live pan/zoom instance has a diagram mounted,  *)
(* and the instance was created on that diagram.                           *)

C17_Original ==
    /\ panZoomInstanceRef # "null" => mainDom.mounted /\ mainDom.bound
    /\ panZoomCykInstanceRef # "null" => cykDom.mounted /\ cykDom.bound

---------------------------------------------------------------------------
(* C16: when the annotation pass runs on a diagram newly mounted in a      *)
(* slot, the slot holds no pan/zoom instance: the instance of the diagram  *)
(* that was there before has been destroyed.                               *)

C16_Original ==
    [][/\ mainDom.passes = 0 /\ mainDom'.passes = 1 => panZoomInstanceRef = "null"
       /\ cykDom.passes = 0 /\ cykDom'.passes = 1 => panZoomCykInstanceRef = "null"]_vars

---------------------------------------------------------------------------
(* C18: the annotation pass and the pan/zoom binding are scheduled for,    *)
(* and act on, a slot only while that slot's status is 'loaded', its       *)
(* content is vector markup and it is not flagged as a placeholder.        *)

MainIsGenuineVector ==
    imageStatus = "loaded" /\ Includes_svg(svgContent) /\ ~isImageNotAvailable

CykIsGenuineVector ==
    rscapeCykStatus = "loaded" /\ Includes_svg(rscapeCykContent) /\ ~isRscapeCykNotAvailable

C18_AnnotationOnlyOnGenuineVector ==
    /\ [](/\ mainTimer => MainIsGenuineVector
          /\ cykTimer => CykIsGenuineVector
          /\ mainDom.passes > 0 \/ mainDom.bound => MainIsGenuineVector
          /\ cykDom.passes > 0 \/ cykDom.bound => CykIsGenuineVector /\ MainIsGenuineVector)
    /\ [][/\ mainDom'.passes > mainDom.passes \/ liveMain' > liveMain =>
                 mainTimer /\ MainIsGenuineVector /\ selectedImageType = "rscape"
          /\ cykDom'.passes > cykDom.passes \/ liveCyk' > liveCyk =>
                 cykTimer /\ CykIsGenuineVector]_vars

\* the pass and the binding have run on the main diagram, and have not on
\* the companion, which came back as a placeholder
C18_Witness ==
    /\ MainIsGenuineVector /\ mainDom.passes = 1 /\ mainDom.bound
    /\ rscapeCykStatus = "loaded" /\ isRscapeCykNotAvailable /\ ~Pending("cyk")
    /\ ~cykTimer /\ panZoomCykInstanceRef = "null" /\ rscapeCykStats = NullStats

---------------------------------------------------------------------------
(* C19: on a freshly mounted diagram the pass reports as basepairs the     *)
(* number of paths with stroke-width '1.44' and as significantBasepairs    *)
(* the number of those that also have the significant fill, so that        *)
(* significantBasepairs <= basepairs.                                      *)

C19_Original ==
    mainDom.mounted /\ mainDom.passes = 1 =>
        LET els == svgContent.els IN
        /\ rscapeStats.basepairs = Cardinality({ i \in 1..Len(els) : IsPairingLine(els[i]) })
        /\ rscapeStats.significantBasepairs =
               Cardinality({ i \in 1..Len(els) :
                               IsPairingLine(els[i]) /\ els[i].fill = "#31a354" })
        /\ rscapeStats.significantBasepairs <= rscapeStats.basepairs

---------------------------------------------------------------------------
(* C20: a click on a diagram that has none of the layers #seq, #outline,   *)
(* #pairs changes nothing: the phase stays 1 and no element is touched.    *)
(* On a diagram that has some of them the click advances the phase and     *)
(* sets the visibility of the layers present to the new phase's values,    *)
(* leaving every other element as mounted.                                 *)

LayerIds == { "seq", "outline", "pairs" }

LayersPresent(dom) == { id \in LayerIds : HasLayer(dom, id) }

LayerPositions(dom) == { LayerOf(dom, id) : id \in LayersPresent(dom) }

\* the visibility the clicks so far have left on the layers of a diagram in this phase
Clicked(phase, id) == IF phase = 1 THEN { "", "visible" } ELSE { PhaseVisibility(phase)[id] }

C20_NoOpWithoutLayers ==
    mainDom.mounted /\ selectedImageType \notin { "rscape", "rchie" } =>
        /\ LayersPresent(mainDom) = { } => svgToggleState = 1 /\ mainDom.els = svgContent.els
        /\ \A id \in LayersPresent(mainDom) :
              mainDom.els[LayerOf(mainDom, id)].visibility \in Clicked(svgToggleState, id)
        /\ svgToggleState # 1 => LayersPresent(mainDom) # { }
        /\ \A i \in 1..Len(mainDom.els) :
              i \notin LayerPositions(mainDom) => mainDom.els[i] = svgContent.els[i]

\* only #seq is there: the click has advanced the phase to 2 and hidden it
C20_Witness ==
    /\ mainDom.mounted /\ selectedImageType = "cons"
    /\ LayersPresent(mainDom) = { "seq" } /\ svgToggleState = 2
    /\ mainDom.els[LayerOf(mainDom, "seq")].visibility = "hidden"

\* C20 as stated: with any one of the three layers absent a click changes
\* neither the phase nor any layer's visibility
C20_Original ==
    mainDom.mounted /\ LayersPresent(mainDom) # LayerIds =>
        svgToggleState = 1 /\ mainDom.els = svgContent.els

---------------------------------------------------------------------------
(* C21: every step that changes selectedImageType, a user switch or the    *)
(* selection made by tryLoadImage, leaves svgToggleState = 1; while the    *)
(* selected type stays the same only a click on the mounted diagram        *)
(* changes the phase, and it moves it to the next one.  So the phase is 1  *)
(* when the first click on a newly selected type is handled, and that      *)
(* click gives phase 2.                                                    *)

C21_ToggleResetOnTypeChange ==
    /\ [][selectedImageType' # selectedImageType => svgToggleState' = 1]_vars
    /\ [][selectedImageType' = selectedImageType /\ svgToggleState' # svgToggleState =>
              /\ ToggleEligible /\ imageStatus = "loaded"
              /\ svgToggleState' = AfterClick(svgToggleState)
              /\ UNCHANGED << svgContent, imageStatus, tasks, switches, familyAcc >>]_vars

\* the user has clicked to phase 3 on 'cons', switched to 'fcbp', and clicked once
C21_Witness ==
    /\ switches = 1 /\ selectedImageType = "fcbp" /\ imageStatus = "loaded"
    /\ ToggleEligible /\ svgToggleState = 2
    /\ AsRecord(LayerVisibility(mainDom)) = PhaseVisibility(2)

---------------------------------------------------------------------------
(* C22: the step in which the host changes familyAcc leaves the widget in  *)
(* its initial state for the new entity: imageStatus 'loading', no         *)
(* content, no placeholder flag, no statistics, the comparator empty and   *)
(* 'loading', the first configured candidate selected, the phase 1.        *)

C22_Original ==
    [][familyAcc' # familyAcc =>
          /\ imageStatus' = "loading"
          /\ svgContent' = EmptyBody /\ ~isImageNotAvailable'
          /\ rscapeStats' = NullStats
          /\ rscapeCykContent' = EmptyBody /\ rscapeCykStatus' = "loading"
          /\ rscapeCykStats' = NullStats /\ ~isRscapeCykNotAvailable'
          /\ selectedImageType' = imageTypes'[1]
          /\ svgToggleState' = 1]_vars

---------------------------------------------------------------------------
(* C23: a step issues the companion GET only when it leaves the selected   *)
(* type 'rscape', imageStatus 'loaded' and the main content not flagged as *)
(* a placeholder.                                                          *)

CykLoadStarts == cykGets' > cykGets

C23_Original ==
    [][CykLoadStarts =>
          /\ selectedImageType' = "rscape" /\ imageStatus' = "loaded"
          /\ ~isImageNotAvailable']_vars

---------------------------------------------------------------------------
(* C24: a change of familyAcc or of imageTypes cancels nothing: every      *)
(* sequence in flight stays in flight next to the one the change starts,   *)
(* and a GET of any sequence, also of one started for an earlier entity or *)
(* candidate list, that resolves with valid content writes svgContent,     *)
(* selectedImageType and imageStatus.  So the older load's result can be   *)
(* applied after the newer one's, and the widget ends 'loaded' with the    *)
(* diagram of the previous entity.                                         *)

FetchTaskOf(i) ==
    CHOOSE k \in 1..Len(tasks) :
        tasks[k].kind = "init" /\ tasks[k].phase = "fetch" /\ tasks[k].req = i

C24_LoadsNeverCancelled ==
    /\ [][familyAcc' # familyAcc \/ imageTypes' # imageTypes =>
              /\ Len(tasks') = Len(tasks) + 1
              /\ \A k \in 1..Len(tasks) : tasks'[k] = tasks[k]
              /\ tasks'[Len(tasks')].fam = familyAcc'
              /\ tasks'[Len(tasks')].check = imageTypes']_vars
    /\ [][\A i \in 1..Len(initGets) :
              initGets[i].outcome = "pending" /\ initGets'[i].outcome = "valid" =>
                  /\ imageStatus' = "loaded"
                  /\ selectedImageType' = tasks[FetchTaskOf(i)].type
                  /\ svgContent' = SvgBody(EntityDiagram(tasks[FetchTaskOf(i)].fam))]_vars

\* both loads have succeeded, the older one last: the new entity shows the old one's diagram
C24_Witness ==
    /\ familyAcc = FamilyChain[2] /\ tasks = << >> /\ imageStatus = "loaded"
    /\ svgContent = SvgBody(EntityDiagram(FamilyChain[1]))
    /\ mainDom.mounted /\ mainDom.els = EntityDiagram(FamilyChain[1])
    /\ Len(initGets) = 2 /\ initGets[1].outcome = "valid" /\ initGets[2].outcome = "valid"

---------------------------------------------------------------------------
(* C25: when the timer callback of a slot runs and no pan/zoom instance is *)
(* bound, because svgPanZoom threw or because the container holds no       *)
(* diagram, the slot's ref is null afterwards, imageStatus, the content    *)
(* of both slots, the placeholder flags and errorMessage are as before,    *)
(* and the statistics are the ones the annotation pass of that callback    *)
(* published.  For the main slot imageStatus was and stays 'loaded'.       *)

MainTimerFired ==
    mainTimer /\ ~mainTimer' /\ UNCHANGED << imageStatus, svgContent, selectedImageType >>

CykTimerFired ==
    cykTimer /\ ~cykTimer' /\ UNCHANGED << rscapeCykStatus, rscapeCykContent >>

LoadStateUnchanged ==
    UNCHANGED << imageStatus, errorMessage, svgContent, selectedImageType, isImageNotAvailable,
                 rscapeCykStatus, rscapeCykContent, isRscapeCykNotAvailable, tasks >>

C25_BindFailureSwallowed ==
    /\ [][MainTimerFired /\ ~mainDom'.bound =>
              /\ panZoomInstanceRef' = "null"
              /\ imageStatus = "loaded" /\ LoadStateUnchanged
              /\ rscapeStats' = (IF mainDom.mounted THEN PublishedStats(mainDom) ELSE rscapeStats)
              /\ rscapeCykStats' = rscapeCykStats]_vars
    /\ [][CykTimerFired /\ ~cykDom'.bound =>
              /\ panZoomCykInstanceRef' = "null"
              /\ rscapeCykStatus = "loaded" /\ LoadStateUnchanged
              /\ rscapeCykStats' = (IF cykDom.mounted THEN PublishedStats(cykDom)
                                    ELSE rscapeCykStats)
              /\ rscapeStats' = rscapeStats]_vars

\* the pass has run on the main diagram and svgPanZoom threw: counts published, no instance
C25_Witness ==
    /\ imageStatus = "loaded" /\ selectedImageType = "rscape" /\ errorMessage = ""
    /\ mainDom.mounted /\ mainDom.passes = 1 /\ ~mainDom.bound /\ ~mainTimer
    /\ panZoomInstanceRef = "null" /\ liveMain = 0
    /\ svgContent = SvgBody(FixtureA)
    /\ rscapeStats = [ basepairs |-> 10, significantBasepairs |-> 3 ]

---------------------------------------------------------------------------
(* C26: on a diagram with a pan/zoom instance bound, a width or height     *)
(* declared as the integer w in the content is max(w, 400): values below   *)
(* 400, 0 included, were rewritten to 400, the others left as declared.    *)

Max(a, b) == IF a >= b THEN a ELSE b

FloorApplied(declared, attr) == declared.present => attr = Attr(Max(declared.value, 400))

C26_Original ==
    /\ mainDom.mounted /\ mainDom.bound =>
          /\ FloorApplied(svgContent.width, mainDom.width)
          /\ FloorApplied(svgContent.height, mainDom.height)
    /\ cykDom.mounted /\ cykDom.bound =>
          /\ FloorApplied(rscapeCykContent.width, cykDom.width)
          /\ FloorApplied(rscapeCykContent.height, cykDom.height)

---------------------------------------------------------------------------
(* C27: while the loupe of 'rchie' is shown for the published position     *)
(* (x, y) and local coordinates (bgX, bgY), it is placed at                *)
(* (x - 100, y - 100) and its background is offset by                      *)
(* (2 * bgX - 100, 2 * bgY - 100), that is, positioned at minus these.     *)

C27_Original ==
    LoupeShown(Cur) =>
        LET style == LoupeStyle(Cur)
            px == CssLength(style.backgroundPosition[1])
            py == CssLength(style.backgroundPosition[2])
        IN /\ style.left = loupePosition.x - 100
           /\ style.top = loupePosition.y - 100
           /\ px.valid /\ 0 - px.value = 2 * loupePosition.bgX - 100
           /\ py.valid /\ 0 - py.value = 2 * loupePosition.bgY - 100

---------------------------------------------------------------------------
(* C28: a probe round is started only by a step that changes familyAcc or  *)
(* imageTypes, never by a re-render after the widget's own state writes,   *)
(* also when the default candidate list is in use.                         *)

\* the rounds started so far: every round probes the first candidate first
RoundsStarted ==
    Cardinality({ j \in 1..Len(probeLog) : probeLog[j].type = TypesToCheck[1] })
    + Cardinality({ k \in 1..Len(tasks) :
                      tasks[k].kind = "init" /\ tasks[k].phase = "probe" /\ tasks[k].i = 1 })

C28_Original ==
    [][RoundsStarted' > RoundsStarted =>
          familyAcc' # familyAcc \/ imageTypes' # imageTypes]_vars

---------------------------------------------------------------------------
(* C29: with an empty familyAcc or an empty imageTypes nothing ever        *)
(* happens: no probe and no GET is issued, nothing is outstanding or       *)
(* scheduled, imageStatus is 'loading' and errorMessage is empty; the      *)
(* widget stays in the state of its first render.                          *)

C29_UnconfiguredStaysLoading ==
    ~Configured =>
        /\ imageStatus = "loading" /\ errorMessage = ""
        /\ probeLog = << >> /\ initGets = << >> /\ switchGets = << >> /\ cykGets = 0
        /\ tasks = << >> /\ ~mainTimer /\ ~cykTimer
        /\ Cur = InitialState(familyAcc, imageTypes)
        /\ ~ENABLED Next

\* mounted with a family and no candidates
C29_Witness ==
    /\ familyAcc = "RF00001" /\ imageTypes = << >> /\ selectedImageType = "rscape"
    /\ imageStatus = "loading" /\ tasks = << >>

---------------------------------------------------------------------------
(* C30: availableTypes is an order-preserving subsequence of imageTypes    *)
(* whose members are in DROPDOWN_IMAGE_TYPES and were probed ok; it is     *)
(* empty until the last probe has resolved and from then on holds exactly  *)
(* the candidates of the dropdown set that probed ok.  A configured type   *)
(* outside the set is never probed, never fetched, never an option of the  *)
(* selector and never the target of a switch.                              *)

DropdownSet == Range(DROPDOWN_IMAGE_TYPES)

AllProbesResolved == Configured /\ Len(probeLog) = Len(TypesToCheck)

C30_AvailableTypesFiltered ==
    /\ availableTypes = Filter(imageTypes, Range(availableTypes))
    /\ Range(availableTypes) \subseteq DropdownSet \cap ProbedOk
    /\ IF AllProbesResolved
       THEN availableTypes = Filter(imageTypes, DropdownSet \cap ProbedOk)
       ELSE availableTypes = << >>
    /\ \A i \in 1..Len(probeLog) : probeLog[i].type \in DropdownSet
    /\ \A i \in 1..Len(initGets) : initGets[i].type \in DropdownSet \cap Range(availableTypes)
    /\ \A i \in 1..Len(switchGets) : switchGets[i].type \in DropdownSet \cap Range(availableTypes)
    /\ \A k \in 1..Len(tasks) : tasks[k].kind # "cyk" => tasks[k].type \in DropdownSet
    /\ dropdownTypes = availableTypes
    /\ switches > 0 => selectedImageType \in DropdownSet \cap Range(availableTypes)

\* 'rscape-cyk' is configured between two dropdown types: both are available, it is
\* not, and the user has switched
C30_Witness ==
    /\ Len(imageTypes) = 3 /\ imageTypes[2] = "rscape-cyk"
    /\ availableTypes = << imageTypes[1], imageTypes[3] >>
    /\ Len(probeLog) = 2 /\ switches = 1 /\ selectedImageType = imageTypes[3]

---------------------------------------------------------------------------
(* C31: with the props fixed, the user cannot start a switch while         *)
(* imageStatus is 'loading'; picking the type already selected changes     *)
(* nothing (no request, no state write, no viewport controller             *)
(* destroyed); so at most one request for the content of the main slot is  *)
(* in flight at any time, and while one is in flight imageStatus is        *)
(* 'loading'.                                                              *)

\* the requests for main-slot content that are in flight
MainFetchesInFlight ==
    { k \in 1..Len(tasks) : \/ tasks[k].kind = "switch"
                            \/ tasks[k].kind = "init" /\ tasks[k].phase = "fetch" }

C31_OneMainFetchInFlight ==
    /\ imageStatus = "loading" => ~ENABLED UserSelectsType
    /\ handleImageTypeChange(Cur, selectedImageType) = Cur
    /\ Commit(Cur, handleImageTypeChange(Cur, selectedImageType)) = Cur
    /\ Cardinality(MainFetchesInFlight) <= 1
    /\ NumTasks("init") + NumTasks("switch") <= 1
    /\ MainFetchesInFlight # { } => imageStatus = "loading"

\* the second switch of the user is in flight, the selector is rendered and disabled
C31_Witness ==
    /\ switches = 2 /\ Pending("switch") /\ imageStatus = "loading"
    /\ Len(dropdownTypes) > 1 /\ Len(switchGets) = 1

---------------------------------------------------------------------------
(* C32: with the props fixed, whenever imageStatus is 'loaded' the content *)
(* and the placeholder flag are those of the response to the GET made for  *)
(* the selected type, which is the last GET made for the main slot, and    *)
(* the selected type is a member of availableTypes.                        *)

\* the last GET made for the main slot
LastMainGet ==
    IF switches > 0 THEN switchGets[Len(switchGets)] ELSE initGets[Len(initGets)]

C32_LoadedContentIsOfSelectedType ==
    imageStatus = "loaded" =>
        /\ selectedImageType \in Range(availableTypes)
        /\ MainFetchesInFlight = { }
        /\ LastMainGet = [ type |-> selectedImageType, outcome |-> "valid" ]
        /\ \/ svgContent = SvgBody(TypeDiagram(selectedImageType)) /\ ~isImageNotAvailable
           \/ svgContent = RawBody /\ isImageNotAvailable = (selectedImageType # "rchie")

\* initialization fell back from rscape to cons, then the user switched twice and
\* the diagram of rscape is shown
C32_Witness ==
    /\ imageStatus = "loaded" /\ switches = 2 /\ selectedImageType = "rscape"
    /\ svgContent = SvgBody(TypeDiagram("rscape")) /\ ~isImageNotAvailable
    /\ initGets = << [ type |-> "rscape", outcome |-> "failed" ],
                     [ type |-> "cons", outcome |-> "valid" ] >>

---------------------------------------------------------------------------
(* C33: a placeholder response ends the fallback.  A structurally valid    *)
(* response, the 'not available' PNG included, is always the last GET of   *)
(* tryLoadImage: the candidates before it failed and no later candidate is *)
(* ever fetched.  When the response is the PNG and the type is not rchie,  *)
(* that candidate is selected with the placeholder flag set.               *)

C33_PlaceholderEndsFallback ==
    /\ \A i \in 1..(Len(initGets) - 1) : initGets[i].outcome = "failed"
    /\ Len(initGets) <= Len(AvailableInOrder)
    /\ \A i \in 1..Len(initGets) : initGets[i].type = AvailableInOrder[i]
    /\ switches = 0 /\ Len(initGets) > 0 /\ initGets[Len(initGets)].outcome = "valid" =>
          /\ ~Pending("init") /\ imageStatus = "loaded"
          /\ selectedImageType = initGets[Len(initGets)].type
          /\ isImageNotAvailable = (svgContent = RawBody /\ selectedImageType # "rchie")
    /\ switches = 0 /\ imageStatus = "loaded" /\ svgContent = RawBody =>
          /\ initGets[Len(initGets)] = [ type |-> selectedImageType, outcome |-> "valid" ]
          /\ isImageNotAvailable = (selectedImageType # "rchie")

\* [cons, rscape], both probed available: cons returned the PNG, rscape was not fetched
C33_Witness ==
    /\ imageTypes = << "cons", "rscape" >> /\ ProbedOk = { "cons", "rscape" }
    /\ initGets = << [ type |-> "cons", outcome |-> "valid" ] >>
    /\ ~Pending("init") /\ switches = 0
    /\ imageStatus = "loaded" /\ selectedImageType = "cons"
    /\ svgContent = RawBody /\ isImageNotAvailable

---------------------------------------------------------------------------
(* C34: while 'rscape' is not the selected and loaded type, neither slot   *)
(* holds a live pan/zoom instance and the comparator's container is not    *)
(* rendered, whatever a companion load started earlier does when it        *)
(* resolves; and the step in which 'rscape' becomes loaded starts a new    *)
(* companion load, which puts the comparator in 'loading' with no          *)
(* statistics, so the result of the earlier load is not shown as the       *)
(* current one before the new load has started.                            *)

RscapeLoaded == selectedImageType = "rscape" /\ imageStatus = "loaded"

=============================================================================
